---- MODULE Spec2Model ----
(***************************************************************************)
(* State-machine model of ClearMap/Analysis/Graphs/GraphGt.py: the Graph   *)
(* class' edge-geometry store (packed 'graph' mode / scattered 'edge'      *)
(* mode), its index compaction, sub-graph extraction and the binary        *)
(* morphological operators over the adjacency.                             *)
(*                                                                         *)
(* A graph is a record                                                     *)
(*   nv        number of vertices, ids 0 .. nv-1                           *)
(*   edges     sequence of <<source, target>>, position = edge id + 1      *)
(*   directed  the engine's directedness flag                              *)
(*   vc        the 'coordinates' vertex property, one sample per vertex    *)
(*   vp        vertex property table: name -> sequence with one value per  *)
(*             vertex                                                      *)
(*   gp        graph property table: name -> value                         *)
(*   ep        edge property table: name -> sequence with one value/edge   *)
(*   mesh      the cached edge meshes: None, or <<the meshes>>             *)
(* Per-edge geometry arrays are sequences of samples; a sample is a tuple  *)
(* (a row of a 2-D numpy array).                                           *)
(***************************************************************************)
EXTENDS Integers, Sequences, FiniteSets, TLC

\* ------------------------------------------------------------------ bounds
NV == 3          \* vertices of the graphs built in the geometry model
MaxEdges == 2    \* add_edge is called at most this many times
MaxLen == 2      \* samples per edge in a geometry passed to set_edge_geometry
MaxSteps == 2    \* steps argument of the propagation operators
MaxRanges == 3   \* longest range list of the range model
MaxStart == 2    \* largest start of a range drawn in the range model
MaxRemap == 2    \* longest range list remap_array_ranges is applied to
MaxArray == 3    \* longest array remap_array_ranges is applied to

\* Graph.DEFAULT_N_DIMS
DEFAULT_N_DIMS == 3

VARIABLES
  g,       \* the graph the calls are made on
  sub,     \* <<G>>: the graph returned by the last call when it was sub_graph, else <<>>
  view,    \* <<W>>: the view returned by the last call when it was sub_graph(view=True)
  err,     \* "none", or the exception the last call raised
  last,    \* the last call: [op, name, arg]
  added,   \* the number of add_edge calls made
  label,   \* the vertex label the running propagation works on
  label0,  \* the label passed to the running morphological call
  prev,    \* the label before the last propagation round
  mop,     \* the morphological call: "none", "dilate", "erode", "open", "close"
  phase,   \* 1 or 2: which of the two propagations of open/close is running
  left,    \* rounds left in the running propagation
  nsteps,  \* the steps argument of the call
  rounds,  \* rounds done by the running propagation
  pc,      \* "idle", "run", "done"
  lens,    \* range model: the list of per-edge lengths
  rng,     \* range model: the current range list
  rng0,    \* range model: the range list before the last computation
  rop,     \* range model: the last computation
  rmp,     \* range model: <<>>, or the last remap: [prop, size, old, new, out]
  elabel,  \* the edge label the running edge_propagate works on
  eprev,   \* the edge label before the last round of edge_propagate
  evalue,  \* the value argument of the running edge_propagate
  eleft,   \* rounds left in the running edge_propagate
  erounds, \* rounds done by the running edge_propagate
  epc      \* edge_propagate: "idle", "run", "done"

vars == <<g, sub, view, err, last, added, label, label0, prev, mop, phase, left,
          nsteps, rounds, pc, lens, rng, rng0, rop, rmp,
          elabel, eprev, evalue, eleft, erounds, epc>>
geomVars == <<g, sub, view, err, last, added>>
morphVars == <<label, label0, prev, mop, phase, left, nsteps, rounds, pc>>
rangeVars == <<lens, rng, rng0, rop, rmp>>
edgeVars == <<elabel, eprev, evalue, eleft, erounds, epc>>

\* ------------------------------------------------------------- numpy helpers
Min(a, b) == IF a <= b THEN a ELSE b

RECURSIVE SumSeq(_)
SumSeq(s) == IF s = <<>> THEN 0 ELSE Head(s) + SumSeq(Tail(s))

\* np.cumsum
Cumsum(s) == [i \in 1..Len(s) |-> SumSeq(SubSeq(s, 1, i))]

\* np.hstack([0, c[:-1]])
Hstack0(c) == <<0>> \o (IF Len(c) = 0 THEN <<>> ELSE SubSeq(c, 1, Len(c) - 1))

\* np.array([a, b]).T ; rows of different length make no 2-D array
Ragged == << <<-1>> >>
ColumnPairs(a, b) ==
  IF Len(a) # Len(b) THEN Ragged ELSE [i \in 1..Len(a) |-> <<a[i], b[i]>>]

\* a[s:e] for 0 <= s, 0 <= e (numpy clips the slice to the array)
Slice(a, s, e) == SubSeq(a, s + 1, Min(e, Len(a)))

RECURSIVE Concat(_)
\* np.vstack of a list of 2-D arrays; reshape(-1) of one 2-D array
Concat(ss) == IF ss = <<>> THEN <<>> ELSE Head(ss) \o Concat(Tail(ss))

\* np.diff(indices, axis=1)[:, 0]
RangeLengths(indices) == [i \in 1..Len(indices) |-> indices[i][2] - indices[i][1]]

\* an (n_edges, 2) array: every row is a pair
IsPairs(indices) == \A i \in 1..Len(indices) : Len(indices[i]) = 2

\* an optional value: None, or the value given
None == <<>>
Some(x) == <<x>>

\* ------------------------------------------------------------ property store
\* outcome of a call: the graph it leaves and the exception it raised
Ok(G) == [g |-> G, err |-> "none"]
Raise(G, e) == [g |-> G, err |-> e]

\* the property tables of a graph made by Graph(edge_geometry_type=t)
NewGraphProperties(t) == ("shape" :> "None") @@ ("edge_geometry_type" :> t)
NoProperties == [n \in {} |-> <<>>]

Put(table, name, value) == [n \in DOMAIN table \cup {name} |->
                              IF n = name THEN value ELSE table[n]]
Drop(table, name) == [n \in DOMAIN table \ {name} |-> table[n]]

\* Graph.invalidate_caches
invalidate_caches(G) == [G EXCEPT !.mesh = None]

\* Graph.define_graph_property / add_graph_property / set_graph_property
define_graph_property(G, name, source) ==
  invalidate_caches([G EXCEPT !.gp = Put(G.gp, name, source)])

\* Graph.set_graph_property
set_graph_property(G, name, source) ==
  IF name \notin DOMAIN G.gp THEN Raise(G, "ValueError")
  ELSE Ok(invalidate_caches([G EXCEPT !.gp = Put(G.gp, name, source)]))

\* Graph.remove_graph_property
remove_graph_property(G, name) ==
  IF name \notin DOMAIN G.gp THEN Raise(G, "ValueError")
  ELSE Ok(invalidate_caches([G EXCEPT !.gp = Drop(G.gp, name)]))

\* Graph.define_edge_property with edge=None
define_edge_property(G, name, source) ==
  invalidate_caches([G EXCEPT !.ep = Put(G.ep, name, source)])

\* Graph.set_edge_property with edge=None
set_edge_property(G, name, source) ==
  IF name \notin DOMAIN G.ep THEN Raise(G, "ValueError")
  ELSE Ok(invalidate_caches([G EXCEPT !.ep = Put(G.ep, name, source)]))

\* Graph.remove_edge_property
remove_edge_property(G, name) ==
  IF name \notin DOMAIN G.ep THEN Raise(G, "ValueError")
  ELSE Ok(invalidate_caches([G EXCEPT !.ep = Drop(G.ep, name)]))

\* Graph.add_vertex_property: the cache is left as it is
add_vertex_property(G, name, source) == [G EXCEPT !.vp = Put(G.vp, name, source)]

\* Graph.set_vertex_property with vertex=None: the cache is left as it is
set_vertex_property(G, name, source) ==
  IF name \notin DOMAIN G.vp THEN Raise(G, "ValueError")
  ELSE Ok([G EXCEPT !.vp = Put(G.vp, name, source)])

\* Graph.define_vertex_property with vertex=None
define_vertex_property(G, name, source) ==
  IF name \in DOMAIN G.vp THEN set_vertex_property(G, name, source).g
  ELSE add_vertex_property(G, name, source)

\* remove_vertex_property that returns silently when the name is absent
remove_vertex_property_if_present(G, name) ==
  Ok(invalidate_caches([G EXCEPT !.vp = Drop(G.vp, name)]))

\* Graph.remove_vertex_property
remove_vertex_property(G, name) ==
  IF name \notin DOMAIN G.vp THEN Raise(G, "ValueError")
  ELSE Ok(invalidate_caches([G EXCEPT !.vp = Drop(G.vp, name)]))

\* Graph.n_edges
n_edges(G) == Len(G.edges)

\* Graph.ndim
ndim(G) == IF G.gp["shape"] = "None" THEN DEFAULT_N_DIMS ELSE Len(G.gp["shape"])

\* ----------------------------------------------------- edge geometry: names
\* Graph.edge_geometry_type (the property)
edge_geometry_type(G) == G.gp["edge_geometry_type"]

\* Graph.edge_geometry_property_name
edge_geometry_property_name(name) == "edge_geometry_" \o name

\* str.startswith
StartsWith(p, prefix) ==
  /\ Len(p) >= Len(prefix)
  /\ SubSeq(p, 1, Len(prefix)) = prefix

\* Graph.edge_geometry_property_names: the prefixed names
edge_geometry_property_names(G) ==
  LET prefix == edge_geometry_property_name("")
      properties == IF edge_geometry_type(G) = "graph" THEN DOMAIN G.gp ELSE DOMAIN G.ep
  IN {p \in properties : StartsWith(p, prefix) /\ p # "edge_geometry_type"}

\* Graph.edge_geometry_properties: the names with the prefix cut off
edge_geometry_properties(G) ==
  LET prefix_len == Len(edge_geometry_property_name(""))
  IN {SubSeq(p, prefix_len + 1, Len(p)) : p \in edge_geometry_property_names(G)}

\* Graph.has_edge_geometry
has_edge_geometry(G, name) ==
  edge_geometry_property_name(name) \in edge_geometry_property_names(G)

\* Graph._edge_geometry_indices_name_graph
IndicesName == edge_geometry_property_name("indices")

\* whether the 'indices' edge attribute exists
HasIndices(G) == IndicesName \in DOMAIN G.ep

VectorNames == {"coordinates", "mesh"}

\* ----------------------------------------------------- edge geometry: reads
\* what a read returns: an exception, a flat array, or a list with one entry per edge
Fail(e) == [err |-> e, list |-> FALSE, data |-> <<>>]
Flat(d) == [err |-> "none", list |-> FALSE, data |-> d]
List(d) == [err |-> "none", list |-> TRUE, data |-> d]

\* g.reshape((-1, ndim)) of a flat vector whose size ndim divides
Reshape(v, nd) == [k \in 1..(Len(v) \div nd) |-> SubSeq(v, (k - 1) * nd + 1, k * nd)]

\* Graph._edge_geometry_vector_edge with edge=None, reshape=True, ndim=None
edge_geometry_vector_edge(G, name, as_list) ==
  LET pname == edge_geometry_property_name(name)
      nd == ndim(G)
  IN IF pname \notin DOMAIN G.ep THEN Fail("KeyError")
     ELSE LET geometry == G.ep[pname]
          IN IF \E i \in 1..Len(geometry) : Len(geometry[i]) % nd # 0
             THEN Fail("ValueError")
             ELSE LET shaped == [i \in 1..Len(geometry) |-> Reshape(geometry[i], nd)]
                  IN IF as_list THEN List(shaped)
                     ELSE IF shaped = <<>> THEN Fail("ValueError")
                     ELSE Flat(Concat(shaped))

\* Graph._edge_geometry_scalar_edge with edge=None
edge_geometry_scalar_edge(G, name) ==
  LET pname == edge_geometry_property_name(name)
  IN IF pname \notin DOMAIN G.ep THEN Fail("KeyError") ELSE List(G.ep[pname])

\* Graph._edge_geometry_edge with edge=None, return_indices=False
edge_geometry_edge(G, name, as_list) ==
  IF name \in VectorNames THEN edge_geometry_vector_edge(G, name, as_list)
  ELSE edge_geometry_scalar_edge(G, name)

\* Graph._edge_geometry_graph with edge=None, return_indices=False
edge_geometry_graph(G, name, as_list) ==
  LET pname == edge_geometry_property_name(name)
  IN IF pname \notin DOMAIN G.gp THEN Fail("KeyError")
     ELSE LET values == G.gp[pname]
          IN IF ~as_list THEN Flat(values)
             ELSE IF ~HasIndices(G) THEN Fail("KeyError")
             ELSE LET indices == G.ep[IndicesName]
                  IN IF ~IsPairs(indices) THEN Fail("ValueError")
                     ELSE List([i \in 1..Len(indices) |->
                                 Slice(values, indices[i][1], indices[i][2])])

\* Graph.edge_geometry with edge=None, return_indices=False
edge_geometry(G, name, as_list) ==
  IF edge_geometry_type(G) = "graph" THEN edge_geometry_graph(G, name, as_list)
  ELSE edge_geometry_edge(G, name, as_list)

\* compute_ranges with the starts taken from the lengths, not from their running sums
compute_ranges_from_lengths(lengths) ==
  ColumnPairs(Hstack0(lengths), Cumsum(lengths))

\* the canonical packing of a list of per-edge lengths:
\* indices = np.cumsum(lengths); np.array([np.hstack([0, indices[:-1]]), indices]).T
compute_ranges(lengths) ==
  LET indices == Cumsum(lengths) IN ColumnPairs(Hstack0(indices), indices)

\* Graph.edge_geometry_lengths with name='coordinates'
edge_geometry_lengths(G) ==
  IF edge_geometry_type(G) = "graph"
  THEN IF ~HasIndices(G) THEN Fail("KeyError")
       ELSE IF ~IsPairs(G.ep[IndicesName]) THEN Fail("ValueError")
       ELSE Flat(RangeLengths(G.ep[IndicesName]))
  ELSE LET values == edge_geometry(G, "coordinates", TRUE)
       IN IF values.err # "none" THEN values
          ELSE Flat([i \in 1..Len(values.data) |-> Len(values.data[i])])

\* Graph._edge_geometry_indices_edge
edge_geometry_indices_edge(G) ==
  LET lengths == edge_geometry_lengths(G)
  IN IF lengths.err # "none" THEN lengths
     ELSE LET indices == compute_ranges(lengths.data)
          IN IF indices = Ragged THEN Fail("ValueError") ELSE Flat(indices)

\* Graph.edge_geometry_indices
edge_geometry_indices(G) ==
  IF edge_geometry_type(G) = "graph"
  THEN IF HasIndices(G) THEN Flat(G.ep[IndicesName]) ELSE Fail("KeyError")
  ELSE edge_geometry_indices_edge(G)

\* ---------------------------------------------------- edge geometry: writes
\* an argument of set_edge_geometry: a list of per-edge arrays, or one flat array
ListArg(d) == [list |-> TRUE, data |-> d]
FlatArg(d) == [list |-> FALSE, data |-> d]

\* Graph._set_edge_geometry_vector_edge with edge=None
set_edge_geometry_vector_edge(G, name, vectors, indices) ==
  LET pname == edge_geometry_property_name(name)
      flat == IF indices = None
              THEN [i \in 1..Len(vectors.data) |-> Concat(vectors.data[i])]
              ELSE [i \in 1..Len(indices[1]) |->
                      Concat(Slice(vectors.data, indices[1][i][1], indices[1][i][2]))]
  IN Ok(define_edge_property(G, pname, flat))

\* Graph._set_edge_geometry_scalar_edge with edge=None
set_edge_geometry_scalar_edge(G, name, scalars) ==
  Ok(define_edge_property(G, edge_geometry_property_name(name), scalars.data))

\* Graph._set_edge_geometry_edge with edge=None
set_edge_geometry_edge(G, name, values, indices) ==
  IF name \in VectorNames THEN set_edge_geometry_vector_edge(G, name, values, indices)
  ELSE set_edge_geometry_scalar_edge(G, name, values)

\* _set_edge_geometry_graph that stores the packed array and leaves the ranges out
set_edge_geometry_graph_without_indices(G, name, values, indices, edge) ==
  IF edge # None THEN Raise(G, "NotImplementedError")
  ELSE IF values.list /\ values.data = <<>> THEN Raise(G, "ValueError")
  ELSE Ok(define_graph_property(G, edge_geometry_property_name(name),
                                IF values.list THEN Concat(values.data)
                                ELSE values.data))

\* _set_edge_geometry_graph that takes a single edge's values for the whole array
set_edge_geometry_graph_of_any_edge(G, name, values, indices, edge) ==
  Ok(define_graph_property(G, edge_geometry_property_name(name),
                           IF values.list THEN Concat(values.data) ELSE values.data))

\* Graph._set_edge_geometry_graph
set_edge_geometry_graph(G, name, values, indices, edge) ==
  IF edge # None THEN Raise(G, "NotImplementedError")
  ELSE
    LET indices1 == IF values.list /\ indices = None
                    THEN Some(compute_ranges([i \in 1..Len(values.data) |->
                                                Len(values.data[i])]))
                    ELSE indices
        values1 == IF values.list THEN Concat(values.data) ELSE values.data
    IN IF values.list /\ (indices1 = Some(Ragged) \/ values.data = <<>>)
       THEN Raise(G, "ValueError")
       ELSE LET G1 == IF indices1 # None
                      THEN define_edge_property(G, IndicesName, indices1[1])
                      ELSE G
            IN Ok(define_graph_property(G1, edge_geometry_property_name(name), values1))

\* Graph.set_edge_geometry
set_edge_geometry(G, name, values, indices, edge) ==
  IF edge_geometry_type(G) = "graph"
  THEN set_edge_geometry_graph(G, name, values, indices, edge)
  ELSE set_edge_geometry_edge(G, name, values, indices)

\* Graph._remove_edge_geometry_edge
remove_edge_geometry_edge(G, name) ==
  remove_edge_property(G, edge_geometry_property_name(name))

\* Graph._remove_edge_geometry_graph
remove_edge_geometry_graph(G, name) ==
  LET pname == edge_geometry_property_name(name)
  IN IF pname \in DOMAIN G.gp THEN remove_graph_property(G, pname) ELSE Ok(G)

\* Graph._remove_edge_geometry_indices_graph
remove_edge_geometry_indices_graph(G) ==
  IF IndicesName \in DOMAIN G.ep THEN remove_edge_property(G, IndicesName) ELSE Ok(G)

RECURSIVE RemoveEach(_, _)
\* the loop of Graph.remove_edge_geometry over the names left to remove
RemoveEach(G, names) ==
  IF names = {} THEN Ok(G)
  ELSE LET n == CHOOSE x \in names : TRUE
           r == IF edge_geometry_type(G) = "graph"
                THEN remove_edge_geometry_graph(G, n)
                ELSE remove_edge_geometry_edge(G, n)
       IN IF r.err # "none" THEN r ELSE RemoveEach(r.g, names \ {n})

\* Graph.remove_edge_geometry ; name "None" removes every geometry attribute
remove_edge_geometry(G, name) ==
  IF name = "None"
  THEN LET r == IF edge_geometry_type(G) = "graph"
                THEN remove_edge_geometry_indices_graph(G)
                ELSE Ok(G)
       IN RemoveEach(r.g, edge_geometry_properties(r.g))
  ELSE RemoveEach(G, {name})

\* ------------------------------------------------- edge geometry: conversion
RECURSIVE GraphToEdgeEach(_, _, _)
\* the 'graph' -> 'edge' loop of Graph.set_edge_geometry_type over the names
\* edge_geometry_property_names returned: each is passed on as it is
GraphToEdgeEach(G, names, indices) ==
  IF names = {} THEN Ok(G)
  ELSE LET name == CHOOSE x \in names : TRUE
           values == edge_geometry(G, name, FALSE)
       IN IF values.err # "none" THEN Raise(G, values.err)
          ELSE LET r1 == remove_edge_geometry_graph(G, name)
                   r2 == set_edge_geometry_edge(r1.g, name,
                                                [list |-> values.list,
                                                 data |-> values.data],
                                                Some(indices))
               IN IF r1.err # "none" THEN r1
                  ELSE IF r2.err # "none" THEN r2
                  ELSE GraphToEdgeEach(r2.g, names \ {name}, indices)

RECURSIVE EdgeToGraphEach(_, _)
\* the 'edge' -> 'graph' loop of Graph.set_edge_geometry_type
EdgeToGraphEach(G, names) ==
  IF names = {} THEN Ok(G)
  ELSE LET name == CHOOSE x \in names : TRUE
           values == edge_geometry(G, name, TRUE)
       IN IF values.err # "none" THEN Raise(G, values.err)
          ELSE LET r1 == remove_edge_geometry_edge(G, name)
                   r2 == set_edge_geometry_graph(r1.g, name,
                                                 [list |-> values.list,
                                                  data |-> values.data],
                                                 None, None)
               IN IF r1.err # "none" THEN r1
                  ELSE IF r2.err # "none" THEN r2
                  ELSE EdgeToGraphEach(r2.g, names \ {name})

\* set_edge_geometry_type without the early return for the mode the graph is in
set_edge_geometry_type_always_converting(G, type) ==
  IF type \notin {"graph", "edge"} THEN Raise(G, "ValueError")
  ELSE
    LET r == IF edge_geometry_type(G) = "graph"
             THEN IF ~HasIndices(G) THEN Raise(G, "KeyError")
                  ELSE LET r1 == GraphToEdgeEach(G, edge_geometry_property_names(G),
                                                 G.ep[IndicesName])
                       IN IF r1.err # "none" THEN r1
                          ELSE remove_edge_geometry_indices_graph(r1.g)
             ELSE EdgeToGraphEach(G, edge_geometry_property_names(G))
    IN IF r.err # "none" THEN r
       ELSE set_graph_property(r.g, "edge_geometry_type", type)

\* Graph.set_edge_geometry_type
set_edge_geometry_type(G, type) ==
  IF type \notin {"graph", "edge"} THEN Raise(G, "ValueError")
  ELSE IF edge_geometry_type(G) = type THEN Ok(G)
  ELSE
    LET r == IF edge_geometry_type(G) = "graph"
             THEN IF ~HasIndices(G) THEN Raise(G, "KeyError")
                  ELSE LET r1 == GraphToEdgeEach(G, edge_geometry_property_names(G),
                                                 G.ep[IndicesName])
                       IN IF r1.err # "none" THEN r1
                          ELSE remove_edge_geometry_indices_graph(r1.g)
             ELSE EdgeToGraphEach(G, edge_geometry_property_names(G))
    IN IF r.err # "none" THEN r
       ELSE set_graph_property(r.g, "edge_geometry_type", type)

\* ------------------------------------------------- edge geometry: compaction
\* compact with the np.diff left out: the running sums of the range ends
compact_of_ends(indices) == compute_ranges([i \in 1..Len(indices) |-> indices[i][2]])

\* the ranges resize_edge_geometry computes from the current ones:
\* np.diff, np.cumsum, np.array([np.hstack([0, c[:-1]]), c]).T
compact(indices) == compute_ranges(RangeLengths(indices))

\* np.zeros((n,) + prop.shape[1:])
Zeros(n, prop) ==
  LET width == IF prop = <<>> THEN 0 ELSE Len(prop[1])
  IN [k \in 1..n |-> [j \in 1..width |-> 0]]

RECURSIVE RemapFrom_clipping(_, _, _, _, _)
\* the copy loop without the length guard: each range pair copies as many samples
\* as both slices hold
RemapFrom_clipping(prop, prop_new, indices, indices_new, i) ==
  IF i > Len(indices) THEN Flat(prop_new)
  ELSE LET source == Slice(prop, indices[i][1], indices[i][2])
           s == indices_new[i][1]
           e == Min(Min(indices_new[i][2], Len(prop_new)), s + Len(source))
       IN RemapFrom_clipping(prop,
                             [k \in 1..Len(prop_new) |->
                                IF s < k /\ k <= e THEN source[k - s] ELSE prop_new[k]],
                             indices, indices_new, i + 1)

RECURSIVE RemapFrom(_, _, _, _, _)
\* prop_new[indices_new[i, 0]:indices_new[i, 1]] = prop[indices[i, 0]:indices[i, 1]]
\* for i, i+1, ...; ranges of different length, and a source and a target of
\* different length, are an error
RemapFrom(prop, prop_new, indices, indices_new, i) ==
  IF i > Len(indices) THEN Flat(prop_new)
  ELSE LET source == Slice(prop, indices[i][1], indices[i][2])
           s == indices_new[i][1]
           e == Min(indices_new[i][2], Len(prop_new))
       IN IF indices[i][2] - indices[i][1] # indices_new[i][2] - indices_new[i][1]
          THEN Fail("ConsistencyError")
          ELSE IF Len(source) # (IF e > s THEN e - s ELSE 0) THEN Fail("ConsistencyError")
          ELSE RemapFrom(prop,
                         [k \in 1..Len(prop_new) |->
                            IF s < k /\ k <= e THEN source[k - s] ELSE prop_new[k]],
                         indices, indices_new, i + 1)

\* ClearMap.Utils.array_utils.remap_array_ranges
remap_array_ranges(prop, prop_new, indices, indices_new) ==
  RemapFrom(prop, prop_new, indices, indices_new, 1)

RECURSIVE ReduceEach(_, _, _, _, _)
\* the loop of Graph._reduce_edge_geometry_properties over the property names
ReduceEach(G, names, indices, indices_new, n) ==
  IF names = {} THEN Ok(G)
  ELSE LET prop_name == CHOOSE x \in names : TRUE
           prop == G.gp[prop_name]
           prop_new == remap_array_ranges(prop, Zeros(n, prop), indices, indices_new)
       IN IF prop_new.err # "none" THEN Raise(G, prop_new.err)
          ELSE LET r == set_graph_property(G, prop_name, prop_new.data)
               IN IF r.err # "none" THEN r
                  ELSE ReduceEach(r.g, names \ {prop_name}, indices, indices_new, n)

\* Graph._reduce_edge_geometry_properties ; indices_new[-1, -1] needs a last row
reduce_edge_geometry_properties(G, indices, indices_new) ==
  IF indices_new = <<>> \/ indices_new = Ragged THEN Raise(G, "IndexError")
  ELSE ReduceEach(G, edge_geometry_property_names(G), indices, indices_new,
                  indices_new[Len(indices_new)][2])

\* Graph.resize_edge_geometry
resize_edge_geometry(G) ==
  IF ~has_edge_geometry(G, "coordinates") \/ edge_geometry_type(G) # "graph" THEN Ok(G)
  ELSE IF ~HasIndices(G) THEN Raise(G, "KeyError")
  ELSE LET indices == G.ep[IndicesName]
       IN IF ~IsPairs(indices) THEN Raise(G, "ValueError")
          ELSE LET indices_new == compact(indices)
                   r == IF indices_new = Ragged THEN Ok(G)
                        ELSE set_edge_property(G, IndicesName, indices_new)
               IN IF r.err # "none" THEN r
                  ELSE reduce_edge_geometry_properties(r.g, indices, indices_new)

\* ----------------------------------------------------------------- sub-graphs
RECURSIVE PickFrom(_, _, _)
\* the entries of seq at the positions in keep, in their order
PickFrom(seq, keep, i) ==
  IF i > Len(seq) THEN <<>>
  ELSE (IF i \in keep THEN <<seq[i]>> ELSE <<>>) \o PickFrom(seq, keep, i + 1)

Pick(seq, keep) == PickFrom(seq, keep, 1)

\* gt.Graph(gt.GraphView(base, vfilt, efilt), prune=True): the vertices the filter
\* keeps and the edges between them that the edge filter keeps, renumbered densely
\* in their order, with every property table carried over
Prune(G, vertex_filter, edge_filter) ==
  LET keptV == {v \in 0..(G.nv - 1) : vertex_filter[v + 1]}
      keptE == {i \in 1..Len(G.edges) :
                  /\ G.edges[i][1] \in keptV
                  /\ G.edges[i][2] \in keptV
                  /\ edge_filter[i]}
      newId(v) == Cardinality({u \in keptV : u < v})
      kept == Pick(G.edges, keptE)
  IN [nv |-> Cardinality(keptV),
      edges |-> [i \in 1..Len(kept) |-> <<newId(kept[i][1]), newId(kept[i][2])>>],
      directed |-> G.directed,
      vc |-> Pick(G.vc, {v + 1 : v \in keptV}),
      vp |-> [n \in DOMAIN G.vp |-> Pick(G.vp[n], {v + 1 : v \in keptV})],
      gp |-> G.gp,
      ep |-> [n \in DOMAIN G.ep |-> Pick(G.ep[n], keptE)],
      mesh |-> None]

\* Graph.sub_graph with view=False: the outcome holds the new graph
sub_graph(G, vertex_filter, edge_filter) ==
  resize_edge_geometry(Prune(G, vertex_filter, edge_filter))

\* gt.GraphView(base, vfilt, efilt): the vertices and edges of base the filters
\* keep, under the ids they have in base, over the property tables of base
GraphView(G, vertex_filter, edge_filter) ==
  [base |-> G, vfilt |-> vertex_filter, efilt |-> edge_filter]

\* the vertex ids of a view
view_vertices(W) == {v \in 0..(W.base.nv - 1) : W.vfilt[v + 1]}

\* the edge ids (positions) of a view: the kept edges between kept vertices
view_edges(W) ==
  {i \in 1..n_edges(W.base) :
     /\ W.efilt[i]
     /\ W.base.edges[i][1] \in view_vertices(W)
     /\ W.base.edges[i][2] \in view_vertices(W)}

\* sub_graph(view=True) that returns a view of the pruned and resized copy
sub_graph_view_of_copy(G, vertex_filter, edge_filter) ==
  LET c == sub_graph(G, vertex_filter, edge_filter).g
  IN GraphView(c, [v \in 1..c.nv |-> TRUE], [i \in 1..n_edges(c) |-> TRUE])

\* Graph.sub_graph with view=True: Graph(base=gv)
sub_graph_view(G, vertex_filter, edge_filter) ==
  GraphView(G, vertex_filter, edge_filter)

\* sub_graph that resizes a graph over the storage of base instead of the pruned
\* copy: base is left with the graph properties the resize wrote
base_after_sub_graph_sharing_storage(G, vertex_filter, edge_filter) ==
  LET r == sub_graph(G, vertex_filter, edge_filter)
  IN IF r.err = "none" THEN [G EXCEPT !.gp = r.g.gp] ELSE G

\* self.base after Graph.sub_graph: gt.GraphView(self.base, ...) and
\* gt.Graph(gv, prune=True) read the base graph, and resize_edge_geometry writes
\* the property maps of the new graph only
base_after_sub_graph(G, vertex_filter, edge_filter) == G

\* a[k] with numpy's indexing: negative k counts from the end
InRange(a, k) == -Len(a) <= k /\ k < Len(a)
At(a, k) == IF k >= 0 THEN a[k + 1] ELSE a[Len(a) + k + 1]

\* Graph.is_edge_geometry_consistent: "True", "False" or the exception raised
is_edge_geometry_consistent(G) ==
  LET eg == edge_geometry(G, "coordinates", FALSE)
      ei == edge_geometry_indices(G)
      ec == G.edges
  IN IF eg.err # "none" THEN eg.err
     ELSE IF ei.err # "none" THEN ei.err
     ELSE IF ~IsPairs(ei.data) \/ Len(ei.data) # Len(ec) THEN "ValueError"
     ELSE IF \E i \in 1..Len(ec) : ~InRange(eg.data, ei.data[i][1]) THEN "IndexError"
     ELSE IF \E i \in 1..Len(ec) : G.vc[ec[i][1] + 1] # At(eg.data, ei.data[i][1])
     THEN "False"
     ELSE IF \E i \in 1..Len(ec) : ~InRange(eg.data, ei.data[i][2] - 1) THEN "IndexError"
     ELSE IF \E i \in 1..Len(ec) : G.vc[ec[i][2] + 1] # At(eg.data, ei.data[i][2] - 1)
     THEN "False"
     ELSE "True"

RECURSIVE FillRanges(_, _, _, _)
\* for i, e in zip(indices, edge_property): si, ei = i; edge_geometry[si:ei] = e
\* from the i-th pair on; a slice assignment writes the part of the slice that
\* lies inside the array
FillRanges(geometry, indices, edge_property, i) ==
  IF i > Len(indices) \/ i > Len(edge_property) THEN geometry
  ELSE FillRanges([k \in 1..Len(geometry) |->
                     IF indices[i][1] < k /\ k <= indices[i][2]
                     THEN <<edge_property[i]>> ELSE geometry[k]],
                  indices, edge_property, i + 1)

\* Graph.edge_geometry_from_edge_property; the array built has len(indices) rows
edge_geometry_from_edge_property(G, edge_property_name, edge_geometry_name) ==
  IF edge_property_name \notin DOMAIN G.ep THEN Raise(G, "KeyError")
  ELSE LET edge_property == G.ep[edge_property_name]
           indices == edge_geometry_indices(G)
       IN IF indices.err # "none" THEN Raise(G, indices.err)
          ELSE IF ~IsPairs(indices.data) THEN Raise(G, "ValueError")
          ELSE LET shape == Len(indices.data)
                   geometry == FillRanges([k \in 1..shape |-> <<0>>],
                                          indices.data, edge_property, 1)
                   name == IF edge_geometry_name = None THEN edge_property_name
                           ELSE edge_geometry_name[1]
               IN set_edge_geometry(G, name, FlatArg(geometry),
                                    Some(indices.data), None)

\* ------------------------------------------------------ the geometry model
\* an ndim-dimensional coordinate; vertex v is placed at Coord(v)
Coord(k) == [j \in 1..DEFAULT_N_DIMS |-> k]

\* the graph Graph(n_vertices=NV, vertex_coordinates=..., edge_geometry_type=t) builds
NewGraph(t, directed) ==
  [nv |-> NV, edges |-> <<>>, directed |-> directed,
   vc |-> [v \in 1..NV |-> Coord(v - 1)], vp |-> NoProperties,
   gp |-> NewGraphProperties(t), ep |-> NoProperties, mesh |-> None]

GeometryNames == {"coordinates", "radii"}

\* the geometry arrays passed for one edge: l samples; for 'coordinates' a polyline
\* from the source's to the target's coordinate (fwd) or the other way round, for
\* any other attribute l one-column rows
Poly(name, e, l, fwd) ==
  LET a == IF fwd THEN e[1] ELSE e[2]
      b == IF fwd THEN e[2] ELSE e[1]
  IN IF name \in VectorNames
     THEN [k \in 1..l |-> IF k = l /\ l > 1 THEN Coord(b) ELSE Coord(a)]
     ELSE [k \in 1..l |-> <<e[1]>>]

\* the choices of a per-edge list for the edges of G: a length for each edge and
\* one direction
GeometryChoices(G) == [1..n_edges(G) -> 1..MaxLen] \X BOOLEAN
GeometryList(G, name, ch) ==
  [i \in 1..n_edges(G) |-> Poly(name, G.edges[i], ch[1][i], ch[2])]
ChoiceLengths(ch) == ch[1]
AllGeometryChoices == (UNION {[1..n -> 1..MaxLen] : n \in 0..MaxEdges}) \X BOOLEAN

\* the per-edge lengths the stored geometry has, when it can be told
StoredLengths(G) ==
  IF edge_geometry_type(G) = "graph"
  THEN IF HasIndices(G) /\ IsPairs(G.ep[IndicesName])
       THEN {RangeLengths(G.ep[IndicesName])} ELSE {}
  ELSE {[i \in 1..n_edges(G) |->
           IF SubSeq(p, Len(edge_geometry_property_name("")) + 1, Len(p)) \in VectorNames
           THEN Len(G.ep[p][i]) \div ndim(G) ELSE Len(G.ep[p][i])]
          : p \in edge_geometry_property_names(G)}

\* a caller gives every geometry attribute the same number of samples per edge
MatchesOthers(G, name, ch) ==
  \/ edge_geometry_properties(G) \subseteq {name}
  \/ \A L \in StoredLengths(G) : L = ChoiceLengths(ch)

Call(op, name, arg) == [op |-> op, name |-> name, arg |-> arg]

\* the bookkeeping of one call on g with outcome r
Returns(r, call) ==
  /\ g' = r.g
  /\ err' = r.err
  /\ last' = call
  /\ sub' = <<>>
  /\ view' = <<>>
  /\ added' = IF call.op = "add_edge" THEN added + 1 ELSE added

GeomInit ==
  /\ \E t \in {"graph", "edge"} : g = NewGraph(t, FALSE)
  /\ sub = <<>>
  /\ view = <<>>
  /\ err = "none"
  /\ last = Call("init", "", <<>>)
  /\ added = 0

\* Graph.add_edge((s, t)): the new edge holds the default (empty) value of every
\* edge property
AddEdge(s, t) ==
  /\ added < MaxEdges
  /\ Returns(Ok(invalidate_caches(
                  [g EXCEPT !.edges = Append(@, <<s, t>>),
                            !.ep = [n \in DOMAIN @ |-> Append(@[n], <<>>)]])),
             Call("add_edge", "", <<s, t>>))
  /\ UNCHANGED <<morphVars, rangeVars, edgeVars>>

\* Graph.remove_edge(i)
RemoveEdge(i) ==
  /\ i \in 1..n_edges(g)
  /\ LET keep == (1..n_edges(g)) \ {i}
     IN Returns(Ok(invalidate_caches(
                     [g EXCEPT !.edges = Pick(@, keep),
                               !.ep = [n \in DOMAIN @ |-> Pick(@[n], keep)]])),
                Call("remove_edge", "", i))
  /\ UNCHANGED <<morphVars, rangeVars, edgeVars>>

\* Graph.set_edge_geometry(name, values) with a list of per-edge arrays
SetEdgeGeometry(name, ch) ==
  /\ ch \in GeometryChoices(g)
  /\ MatchesOthers(g, name, ch)
  /\ LET values == GeometryList(g, name, ch)
     IN Returns(set_edge_geometry(g, name, ListArg(values), None, None),
                Call("set_edge_geometry", name, values))
  /\ UNCHANGED <<morphVars, rangeVars, edgeVars>>

\* Graph.set_edge_geometry(name, values) with one flat array over the ranges the
\* graph already holds
SetEdgeGeometryFlat(name, ch) ==
  /\ ch \in GeometryChoices(g)
  /\ edge_geometry_type(g) = "graph"
  /\ HasIndices(g) /\ IsPairs(g.ep[IndicesName])
  /\ g.ep[IndicesName] = compute_ranges(ChoiceLengths(ch))
  /\ LET values == GeometryList(g, name, ch)
     IN Returns(set_edge_geometry(g, name, FlatArg(Concat(values)), None, None),
                Call("set_edge_geometry_flat", name, values))
  /\ UNCHANGED <<morphVars, rangeVars, edgeVars>>

\* Graph.set_edge_geometry(name, values, edge=e) on a packed graph, with the l
\* samples of one edge
SetEdgeGeometryOfEdge(name, e, l) ==
  /\ edge_geometry_type(g) = "graph"
  /\ e \in 1..n_edges(g)
  /\ LET values == Poly(name, g.edges[e], l, TRUE)
     IN Returns(set_edge_geometry(g, name, FlatArg(values), None, Some(e - 1)),
                Call("set_edge_geometry_of_edge", name, values))
  /\ UNCHANGED <<morphVars, rangeVars, edgeVars>>

\* Graph.remove_edge_geometry(name)
RemoveEdgeGeometry(name) ==
  /\ Returns(remove_edge_geometry(g, name), Call("remove_edge_geometry", name, <<>>))
  /\ UNCHANGED <<morphVars, rangeVars, edgeVars>>

\* Graph.set_edge_geometry_type(type)
SetEdgeGeometryType(type) ==
  /\ Returns(set_edge_geometry_type(g, type),
             Call("set_edge_geometry_type", type, <<>>))
  /\ UNCHANGED <<morphVars, rangeVars, edgeVars>>

\* Graph.resize_edge_geometry()
ResizeEdgeGeometry ==
  /\ Returns(resize_edge_geometry(g), Call("resize_edge_geometry", "", <<>>))
  /\ UNCHANGED <<morphVars, rangeVars, edgeVars>>

\* s = Graph.sub_graph(vertex_filter=vf): g is left as it is
SubGraph(vf) ==
  LET r == sub_graph(g, vf, [i \in 1..n_edges(g) |-> TRUE])
  IN /\ sub' = IF r.err = "none" THEN <<r.g>> ELSE <<>>
     /\ view' = <<>>
     /\ err' = r.err
     /\ last' = Call("sub_graph", "", vf)
     /\ g' = base_after_sub_graph(g, vf, [i \in 1..n_edges(g) |-> TRUE])
     /\ UNCHANGED <<added, morphVars, rangeVars, edgeVars>>

\* w = Graph.sub_graph(vertex_filter=vf, view=True): g is left as it is
SubGraphView(vf) ==
  /\ view' = <<sub_graph_view(g, vf, [i \in 1..n_edges(g) |-> TRUE])>>
  /\ sub' = <<>>
  /\ err' = "none"
  /\ last' = Call("sub_graph_view", "", vf)
  /\ g' = base_after_sub_graph(g, vf, [i \in 1..n_edges(g) |-> TRUE])
  /\ UNCHANGED <<added, morphVars, rangeVars, edgeVars>>

GeomNext ==
  \/ \E s \in 0..(NV - 2) : AddEdge(s, s + 1)
  \/ \E i \in 1..MaxEdges : RemoveEdge(i)
  \/ \E name \in GeometryNames, ch \in AllGeometryChoices : SetEdgeGeometry(name, ch)
  \/ \E name \in GeometryNames, ch \in AllGeometryChoices : SetEdgeGeometryFlat(name, ch)
  \/ \E name \in GeometryNames, e \in 1..MaxEdges, l \in 1..MaxLen :
       SetEdgeGeometryOfEdge(name, e, l)
  \/ \E name \in GeometryNames \cup {"None"} : RemoveEdgeGeometry(name)
  \/ \E type \in {"graph", "edge"} : SetEdgeGeometryType(type)
  \/ ResizeEdgeGeometry
  \/ \E vf \in [1..NV -> BOOLEAN] : SubGraph(vf)
  \/ \E vf \in [1..NV -> BOOLEAN] : SubGraphView(vf)

\* --------------------------------------------------- binary vertex morphology
\* the vertices a propagation from v reaches in one hop: its out-neighbours (every
\* neighbour when the graph is undirected)
OutNeighbours(G, v) ==
  {G.edges[i][2] : i \in {j \in 1..Len(G.edges) : G.edges[j][1] = v}}
  \cup (IF G.directed THEN {}
        ELSE {G.edges[i][1] : i \in {j \in 1..Len(G.edges) : G.edges[j][2] = v}})

RECURSIVE InfectInPlace(_, _, _, _)
\* one sweep over the vertices v, v+1, ... that writes into p while it reads it
InfectInPlace(G, p, value, v) ==
  IF v > G.nv THEN p
  ELSE InfectInPlace(G,
                     [a \in 1..G.nv |->
                        IF p[v] = value /\ (a - 1) \in OutNeighbours(G, v - 1)
                        THEN value ELSE p[a]],
                     value, v + 1)

\* infect_vertex_property without the temporary copy: a vertex infected earlier in
\* the sweep infects its own neighbours in the same round
infect_vertex_property_in_place(G, p, value) == InfectInPlace(G, p, value, 1)

\* infect_vertex_property that also gives value to every vertex with fewer than
\* two out-neighbours, as if the end of a path bordered on a vertex holding value
infect_vertex_property_from_border(G, p, value) ==
  [a \in 1..G.nv |->
     IF \/ \E v \in 1..G.nv : /\ p[v] = value
                              /\ (a - 1) \in OutNeighbours(G, v - 1)
                              /\ p[a] # p[v]
        \/ Cardinality(OutNeighbours(G, a - 1)) < 2
     THEN value ELSE p[a]]

\* infect_vertex_property that follows every edge from its source to its target
\* only, also on an undirected graph
infect_vertex_property_along_edges(G, p, value) ==
  [a \in 1..G.nv |->
     IF \E i \in 1..Len(G.edges) : /\ p[G.edges[i][1] + 1] = value
                                   /\ G.edges[i][2] = a - 1
                                   /\ p[a] # value
     THEN value ELSE p[a]]

\* gt.infect_vertex_property(base, p, vals=[value]): every vertex holding value
\* marks its out-neighbours that hold another value; the marked vertices then
\* take value, all at once
infect_vertex_property(G, p, value) ==
  [a \in 1..G.nv |->
     IF \E v \in 1..G.nv : /\ p[v] = value
                           /\ (a - 1) \in OutNeighbours(G, v - 1)
                           /\ p[a] # p[v]
     THEN value ELSE p[a]]

\* vertex_propagate that makes one pass whatever steps is
vertex_propagate_one_pass(G, lab, value, steps) == infect_vertex_property(G, lab, value)

RECURSIVE vertex_propagate(_, _, _, _)
\* Graph.vertex_propagate(label, value, steps) as a function: steps passes of
\* gt.infect_vertex_property over the label
vertex_propagate(G, lab, value, steps) ==
  IF steps = 0 THEN lab
  ELSE vertex_propagate(G, infect_vertex_property(G, lab, value), value, steps - 1)

\* Graph.vertex_dilate_binary(label, steps)
vertex_dilate_binary(G, lab, steps) == vertex_propagate(G, lab, TRUE, steps)

\* PropagatedValue with the two propagations of vertex_open_binary swapped
PropagatedValue_open_swapped(op, ph) ==
  CASE op = "dilate" -> TRUE
    [] op = "erode" -> FALSE
    [] op = "open" -> (ph = 1)
    [] op = "close" -> (ph = 1)

\* the value vertex_dilate_binary / vertex_erode_binary pass to vertex_propagate,
\* for the first and the second propagation of vertex_open_binary / _close_binary
PropagatedValue(op, ph) ==
  CASE op = "dilate" -> TRUE
    [] op = "erode" -> FALSE
    [] op = "open" -> (ph = 2)
    [] op = "close" -> (ph = 1)

MorphIdle ==
  /\ label = <<>> /\ label0 = <<>> /\ prev = <<>>
  /\ mop = "none" /\ phase = 1 /\ left = 0 /\ nsteps = 0 /\ rounds = 0
  /\ pc = "idle"

\* g = Graph(); g.add_vertex(5); g.add_edge([[0, 1], [1, 2], [2, 3], [3, 4]])
TestPathGraph(directed) ==
  [nv |-> 5, edges |-> <<<<0, 1>>, <<1, 2>>, <<2, 3>>, <<3, 4>>>>,
   directed |-> directed, vc |-> [v \in 1..5 |-> Coord(v - 1)], vp |-> NoProperties,
   gp |-> NewGraphProperties("graph"), ep |-> NoProperties, mesh |-> None]

RECURSIVE SetToSeq(_)
SetToSeq(S) == IF S = {} THEN <<>>
               ELSE LET x == CHOOSE y \in S : TRUE IN <<x>> \o SetToSeq(S \ {x})

\* the graphs the morphology model starts from: every graph on NV vertices with at
\* most MaxEdges edges, directed and undirected, and the path graph of the tests
MorphGraphs ==
  {[NewGraph("graph", d) EXCEPT !.edges = SetToSeq(E)] :
     d \in BOOLEAN,
     E \in {F \in SUBSET ((0..(NV - 1)) \X (0..(NV - 1))) : Cardinality(F) <= MaxEdges}}
  \cup {TestPathGraph(d) : d \in BOOLEAN}

\* a call of vertex_dilate_binary, vertex_erode_binary, vertex_open_binary or
\* vertex_close_binary with a boolean label and steps
CallMorph(op, lab, steps) ==
  /\ pc = "idle"
  /\ Len(lab) = g.nv
  /\ mop' = op /\ label0' = lab /\ label' = lab /\ prev' = lab
  /\ nsteps' = steps /\ left' = steps /\ phase' = 1 /\ rounds' = 0
  /\ pc' = "run"
  /\ UNCHANGED <<geomVars, rangeVars, edgeVars>>

\* one pass of the loop of Graph.vertex_propagate
PropagateRound ==
  /\ pc = "run" /\ left > 0
  /\ prev' = label
  /\ label' = infect_vertex_property(g, label, PropagatedValue(mop, phase))
  /\ left' = left - 1
  /\ rounds' = rounds + 1
  /\ UNCHANGED <<label0, mop, phase, nsteps, pc, geomVars, rangeVars, edgeVars>>

\* vertex_open_binary / vertex_close_binary pass the result of the first
\* propagation to the second
SecondPropagation ==
  /\ pc = "run" /\ left = 0 /\ phase = 1 /\ mop \in {"open", "close"}
  /\ phase' = 2 /\ left' = nsteps /\ rounds' = 0 /\ prev' = label
  /\ UNCHANGED <<label, label0, mop, nsteps, pc, geomVars, rangeVars, edgeVars>>

\* the call returns label
ReturnLabel ==
  /\ pc = "run" /\ left = 0
  /\ phase = 2 \/ mop \in {"dilate", "erode"}
  /\ pc' = "done"
  /\ UNCHANGED <<label, label0, prev, mop, phase, left, nsteps, rounds, geomVars, rangeVars, edgeVars>>

MorphOps == {"dilate", "erode", "open", "close"}
MorphLabels == UNION {[1..n -> BOOLEAN] : n \in {G.nv : G \in MorphGraphs}}

MorphNext ==
  \/ \E op \in MorphOps, lab \in MorphLabels, steps \in 0..MaxSteps :
       CallMorph(op, lab, steps)
  \/ PropagateRound
  \/ SecondPropagation
  \/ ReturnLabel

\* ------------------------------------------------------------ the range model
RangeIdle == lens = <<>> /\ rng = <<>> /\ rng0 = <<>> /\ rop = "init" /\ rmp = <<>>

GeomIdle == sub = <<>> /\ view = <<>> /\ err = "none" /\ last = Call("init", "", <<>>) /\ added = 0

\* every list of at most MaxRanges lengths, with a range list of those lengths
RangeInit ==
  /\ \E n \in 0..MaxRanges :
       \E L \in [1..n -> 0..MaxLen] : \E st \in [1..n -> 0..MaxStart] :
         /\ lens = L
         /\ rng = [i \in 1..n |-> <<st[i], st[i] + L[i]>>]
  /\ rng0 = <<>>
  /\ rop = "init"
  /\ rmp = <<>>

\* a range computation: the ranges are written unless the array could not be built
Computed(ranges, op) ==
  /\ rng0' = rng
  /\ rng' = IF ranges = Ragged THEN rng ELSE ranges
  /\ rop' = IF ranges = Ragged THEN "raised" ELSE op
  /\ UNCHANGED <<lens, rmp, geomVars, morphVars, edgeVars>>

\* the ranges Graph._set_edge_geometry_graph computes for a list of arrays with
\* the lengths lens
PackFromList ==
  /\ rop = "init"
  /\ Computed(compute_ranges(lens), "packed")

\* the ranges Graph._edge_geometry_indices_edge derives from the per-edge lengths
PackFromEdges ==
  /\ rop = "init"
  /\ Computed(compute_ranges(lens), "scattered")

\* the ranges Graph.resize_edge_geometry writes, for the first and a second time
Compact ==
  /\ rop \in {"init", "packed", "scattered", "compact"}
  /\ Computed(compact(rng), IF rop = "compact" THEN "compact2" ELSE "compact")

\* the range lists of n rows to remap from: any start and any length
RemapInputs(n) ==
  {[i \in 1..n |-> <<st[i], st[i] + L[i]>>] :
     st \in [1..n -> 0..MaxStart], L \in [1..n -> 0..MaxLen]}

\* the range lists of n rows to remap to: the packing of any n lengths
RemapTargets(n) == {compute_ranges(L) : L \in [1..n -> 0..MaxLen]}

\* remap_array_ranges(prop, np.zeros(n), rng, new) for an array of m samples and
\* a new range list of the same number of rows
SampleArray(m) == [k \in 1..m |-> <<k>>]
Remap(m, n) ==
  /\ rop = "init"
  /\ rop' = "remap"
  /\ \E new \in RemapTargets(Len(rng)) \ {Ragged} :
       rmp' = [prop |-> SampleArray(m), size |-> n, old |-> rng, new |-> new,
               out |-> remap_array_ranges(SampleArray(m), Zeros(n, SampleArray(m)),
                                          rng, new)]
  /\ UNCHANGED <<lens, rng, rng0, geomVars, morphVars, edgeVars>>

RangeNext == PackFromList \/ PackFromEdges \/ Compact

\* every list of at most MaxRemap ranges to remap from
RemapInit ==
  /\ \E n \in 0..MaxRemap : rng \in RemapInputs(n)
  /\ lens = RangeLengths(rng)
  /\ rng0 = <<>>
  /\ rop = "init"
  /\ rmp = <<>>

RemapNext == \E m \in 0..MaxArray, n \in 0..MaxArray : Remap(m, n)

\* ----------------------------------------------------- binary edge morphology
EdgeIdle ==
  /\ elabel = <<>> /\ eprev = <<>> /\ evalue = FALSE
  /\ eleft = 0 /\ erounds = 0 /\ epc = "idle"

\* Graph.vertex_edges_iterator(v): the ids (positions) of the out-edges of v, which
\* are all edges at v when the graph is undirected
vertex_edges_iterator(G, v) ==
  {i \in 1..n_edges(G) : G.edges[i][1] = v}
  \cup (IF G.directed THEN {} ELSE {i \in 1..n_edges(G) : G.edges[i][2] = v})

\* one pass of the loop of Graph.edge_propagate: the edges holding value, their
\* end vertices, and value written to every edge the iterator gives for them
edge_propagate_round(G, lab, value) ==
  LET edges == {i \in 1..Len(lab) : lab[i] = value}
      vertices == UNION {{G.edges[i][1], G.edges[i][2]} : i \in edges}
      written == UNION {vertex_edges_iterator(G, v) : v \in vertices}
  IN [i \in 1..Len(lab) |-> IF i \in written THEN value ELSE lab[i]]

\* a call of edge_propagate(label, value, steps) with a boolean label
CallEdgePropagate(lab, value, steps) ==
  /\ epc = "idle"
  /\ Len(lab) = n_edges(g)
  /\ elabel' = lab /\ eprev' = lab /\ evalue' = value
  /\ eleft' = steps /\ erounds' = 0
  /\ epc' = "run"
  /\ UNCHANGED <<geomVars, morphVars, rangeVars>>

\* one pass of the loop of Graph.edge_propagate
EdgePropagateRound ==
  /\ epc = "run" /\ eleft > 0
  /\ eprev' = elabel
  /\ elabel' = edge_propagate_round(g, elabel, evalue)
  /\ eleft' = eleft - 1
  /\ erounds' = erounds + 1
  /\ UNCHANGED <<evalue, epc, geomVars, morphVars, rangeVars>>

\* edge_propagate returns label
ReturnEdgeLabel ==
  /\ epc = "run" /\ eleft = 0
  /\ epc' = "done"
  /\ UNCHANGED <<elabel, eprev, evalue, eleft, erounds, geomVars, morphVars, rangeVars>>

EdgeLabels == UNION {[1..n -> BOOLEAN] : n \in {n_edges(G) : G \in MorphGraphs}}

EdgeNext ==
  \/ \E lab \in EdgeLabels, value \in BOOLEAN, steps \in 0..MaxSteps :
       CallEdgePropagate(lab, value, steps)
  \/ EdgePropagateRound
  \/ ReturnEdgeLabel

\* --------------------------------------------------------- the property store
\* the graph the store model starts from: NV vertices on a path
StoreGraph(t) ==
  [NewGraph(t, FALSE) EXCEPT !.edges = [i \in 1..(NV - 1) |-> <<i - 1, i>>]]

StoreInit ==
  /\ \E t \in {"graph", "edge"} : g = StoreGraph(t)
  /\ sub = <<>> /\ view = <<>> /\ err = "none" /\ added = 0
  /\ last = Call("init", "", <<>>)

\* the names and the values the store model passes
PropertyNames == {"a", "b"}
PropertyValues == {0, 1}

\* a property array: one value for each of n vertices or edges
Filled(n, x) == [i \in 1..n |-> x]

\* Graph.define_vertex_property(name, source)
DefineVertexProperty(name, x) ==
  /\ Returns(Ok(define_vertex_property(g, name, Filled(g.nv, x))),
             Call("define_vertex_property", name, x))
  /\ UNCHANGED <<morphVars, rangeVars, edgeVars>>

\* Graph.set_vertex_property(name, source)
SetVertexProperty(name, x) ==
  /\ Returns(set_vertex_property(g, name, Filled(g.nv, x)),
             Call("set_vertex_property", name, x))
  /\ UNCHANGED <<morphVars, rangeVars, edgeVars>>

\* Graph.remove_vertex_property(name)
RemoveVertexProperty(name) ==
  /\ Returns(remove_vertex_property(g, name), Call("remove_vertex_property", name, <<>>))
  /\ UNCHANGED <<morphVars, rangeVars, edgeVars>>

\* Graph.define_edge_property(name, source)
DefineEdgeProperty(name, x) ==
  /\ Returns(Ok(define_edge_property(g, name, Filled(n_edges(g), x))),
             Call("define_edge_property", name, x))
  /\ UNCHANGED <<morphVars, rangeVars, edgeVars>>

\* Graph.set_edge_property(name, source)
SetEdgeProperty(name, x) ==
  /\ Returns(set_edge_property(g, name, Filled(n_edges(g), x)),
             Call("set_edge_property", name, x))
  /\ UNCHANGED <<morphVars, rangeVars, edgeVars>>

\* Graph.remove_edge_property(name)
RemoveEdgeProperty(name) ==
  /\ Returns(remove_edge_property(g, name), Call("remove_edge_property", name, <<>>))
  /\ UNCHANGED <<morphVars, rangeVars, edgeVars>>

\* Graph.define_graph_property(name, source)
DefineGraphProperty(name, x) ==
  /\ Returns(Ok(define_graph_property(g, name, x)),
             Call("define_graph_property", name, x))
  /\ UNCHANGED <<morphVars, rangeVars, edgeVars>>

\* Graph.set_graph_property(name, source)
SetGraphProperty(name, x) ==
  /\ Returns(set_graph_property(g, name, x), Call("set_graph_property", name, x))
  /\ UNCHANGED <<morphVars, rangeVars, edgeVars>>

\* Graph.remove_graph_property(name)
RemoveGraphProperty(name) ==
  /\ Returns(remove_graph_property(g, name), Call("remove_graph_property", name, <<>>))
  /\ UNCHANGED <<morphVars, rangeVars, edgeVars>>

StoreNext ==
  \/ \E name \in PropertyNames, x \in PropertyValues : DefineVertexProperty(name, x)
  \/ \E name \in PropertyNames, x \in PropertyValues : SetVertexProperty(name, x)
  \/ \E name \in PropertyNames : RemoveVertexProperty(name)
  \/ \E name \in PropertyNames, x \in PropertyValues : DefineEdgeProperty(name, x)
  \/ \E name \in PropertyNames, x \in PropertyValues : SetEdgeProperty(name, x)
  \/ \E name \in PropertyNames : RemoveEdgeProperty(name)
  \/ \E name \in PropertyNames, x \in PropertyValues : DefineGraphProperty(name, x)
  \/ \E name \in PropertyNames, x \in PropertyValues : SetGraphProperty(name, x)
  \/ \E name \in PropertyNames : RemoveGraphProperty(name)

\* ------------------------------------------------------ structure operations
\* Graph.vertex_degrees: get_out_degrees of every vertex; on an undirected graph
\* every edge at a vertex is an out-edge (a self-loop counts twice)
vertex_degrees(G) ==
  [v \in 1..G.nv |->
     Cardinality({i \in 1..n_edges(G) : G.edges[i][1] = v - 1})
     + (IF G.directed THEN 0
        ELSE Cardinality({i \in 1..n_edges(G) : G.edges[i][2] = v - 1}))]

AllEdges(G) == [i \in 1..n_edges(G) |-> TRUE]
AllVertices(G) == [v \in 1..G.nv |-> TRUE]

\* self._base = new_graph._base: the graph takes the structure and the properties
\* of new_graph and keeps its own cached meshes
WithBaseOf(G, new_graph) == [new_graph EXCEPT !.mesh = G.mesh]

\* Graph.remove_isolated_vertices
remove_isolated_vertices(G) ==
  LET degrees == vertex_degrees(G)
      non_isolated == [v \in 1..G.nv |-> degrees[v] > 0]
      new_graph == sub_graph(G, non_isolated, AllEdges(G))
  IN IF new_graph.err # "none" THEN Raise(G, new_graph.err)
     ELSE Ok(WithBaseOf(G, new_graph.g))

\* Graph.remove_isolated_edges
remove_isolated_edges(G) ==
  LET vertex_degree == vertex_degrees(G)
      es == [i \in 1..n_edges(G) |-> vertex_degree[G.edges[i][1] + 1]]
      et == [i \in 1..n_edges(G) |-> vertex_degree[G.edges[i][2] + 1]]
      edge_filter == [i \in 1..n_edges(G) |-> ~(es[i] = 1 /\ et[i] = 1)]
      new_graph == sub_graph(G, AllVertices(G), edge_filter)
  IN IF new_graph.err # "none" THEN Raise(G, new_graph.err)
     ELSE remove_isolated_vertices(WithBaseOf(G, new_graph.g))

RECURSIVE ReachableFrom(_, _)
\* the vertices reached from the set S along the edges of G
ReachableFrom(G, S) ==
  LET T == S \cup UNION {OutNeighbours(G, v) : v \in S}
  IN IF T = S THEN S ELSE ReachableFrom(G, T)

\* u and v are in one component: each is reached from the other
SameComponent(G, u, v) ==
  v \in ReachableFrom(G, {u}) /\ u \in ReachableFrom(G, {v})

\* what gtt.label_components may return for G: a numbering 0, 1, ... of its
\* components, in any order
IsComponentLabelling(G, components) ==
  /\ Len(components) = G.nv
  /\ \A u, v \in 1..G.nv :
       (components[u] = components[v]) <=> SameComponent(G, u - 1, v - 1)
  /\ \A u \in 1..G.nv : \A l \in 0..components[u] :
       \E v \in 1..G.nv : components[v] = l

\* the vertex_counts of a labelling: counts[l + 1] vertices hold label l
VertexCounts(components) ==
  LET labels == {components[v] : v \in 1..Len(components)}
  IN [k \in 1..Cardinality(labels) |->
        Cardinality({v \in 1..Len(components) : components[v] = k - 1})]

\* np.argmax that returns the last index of the maximum
argmax_last(counts) ==
  CHOOSE i \in 0..(Len(counts) - 1) :
    /\ \A j \in 0..(Len(counts) - 1) : counts[j + 1] <= counts[i + 1]
    /\ \A j \in (i + 1)..(Len(counts) - 1) : counts[j + 1] < counts[i + 1]

\* np.argmax of a non-empty array: the first index of the maximum
argmax(counts) ==
  CHOOSE i \in 0..(Len(counts) - 1) :
    /\ \A j \in 0..(Len(counts) - 1) : counts[j + 1] <= counts[i + 1]
    /\ \A j \in 0..(i - 1) : counts[j + 1] < counts[i + 1]

\* Graph.largest_component with view=False, for the labelling label_components
\* returned; np.argmax of an empty array raises
largest_component(G, components) ==
  LET counts == VertexCounts(components)
  IN IF counts = <<>> THEN Raise(G, "ValueError")
     ELSE sub_graph(G,
                    [v \in 1..G.nv |-> components[v] = argmax(counts)],
                    AllEdges(G))

\* GraphRendering.mesh_tube(graph, coordinates='coordinates', edge_colors): the
\* tubes around the coordinates of every edge, each face with the id of its edge
mesh_tube(G, edge_colors) ==
  LET coordinates == edge_geometry(G, "coordinates", TRUE)
  IN IF coordinates.err # "none" THEN coordinates
     ELSE Flat([i \in 1..Len(coordinates.data) |->
                  [tube |-> coordinates.data[i],
                   ends |-> G.edges[i],
                   color |-> edge_colors[i]]])

\* Graph.edge_meshes: the outcome and the meshes returned
edge_meshes(G) ==
  IF G.mesh = None
  THEN LET edge_ids == [i \in 1..n_edges(G) |-> i - 1]
           meshes == mesh_tube(G, edge_ids)
       IN IF meshes.err # "none" THEN Raise(G, meshes.err)
          ELSE Ok([G EXCEPT !.mesh = Some(meshes.data)])
  ELSE Ok(G)

\* the graphs the structure model starts from: every graph on NV vertices with at
\* most MaxEdges edges, directed or not, packed or scattered, bare or with one
\* coordinate sample set for every edge
StructGraphs ==
  LET bare == {[NewGraph(t, d) EXCEPT !.edges = SetToSeq(E)] :
                 t \in {"graph", "edge"}, d \in BOOLEAN,
                 E \in {F \in SUBSET ((0..(NV - 1)) \X (0..(NV - 1))) :
                          Cardinality(F) <= MaxEdges}}
  IN bare \cup
     {set_edge_geometry(
        G, "coordinates",
        ListArg(GeometryList(G, "coordinates",
                             <<[i \in 1..n_edges(G) |-> 1], TRUE>>)),
        None, None).g : G \in {B \in bare : n_edges(B) > 0}}

StructInit ==
  /\ g \in StructGraphs
  /\ sub = <<>> /\ view = <<>> /\ err = "none" /\ added = 0
  /\ last = Call("init", "", <<>>)

\* Graph.edge_meshes (a read of the property)
EdgeMeshes ==
  /\ Returns(edge_meshes(g), Call("edge_meshes", "", <<>>))
  /\ UNCHANGED <<morphVars, rangeVars, edgeVars>>

\* Graph.add_vertex(n_vertices=1): the new vertex holds the default value of every
\* vertex property
AddVertex ==
  /\ g.nv < NV
  /\ Returns(Ok(invalidate_caches(
                  [g EXCEPT !.nv = @ + 1,
                            !.vc = Append(@, <<>>),
                            !.vp = [n \in DOMAIN @ |-> Append(@[n], 0)]])),
             Call("add_vertex", "", 1))
  /\ UNCHANGED <<morphVars, rangeVars, edgeVars>>

\* Graph.remove_isolated_vertices()
RemoveIsolatedVertices ==
  /\ Returns(remove_isolated_vertices(g), Call("remove_isolated_vertices", "", <<>>))
  /\ UNCHANGED <<morphVars, rangeVars, edgeVars>>

\* Graph.remove_isolated_edges()
RemoveIsolatedEdges ==
  /\ Returns(remove_isolated_edges(g), Call("remove_isolated_edges", "", <<>>))
  /\ UNCHANGED <<morphVars, rangeVars, edgeVars>>

\* s = Graph.largest_component(), label_components returning components
LargestComponent(components) ==
  /\ IsComponentLabelling(g, components)
  /\ LET r == largest_component(g, components)
     IN /\ sub' = IF r.err = "none" THEN <<r.g>> ELSE <<>>
        /\ view' = <<>>
        /\ err' = r.err
        /\ last' = Call("largest_component", "", components)
  /\ UNCHANGED <<g, added, morphVars, rangeVars, edgeVars>>

\* Graph.load(filename): the file holds the graph G
Load(G) ==
  /\ Returns(Ok(WithBaseOf(g, G)), Call("load", "", <<>>))
  /\ UNCHANGED <<morphVars, rangeVars, edgeVars>>

\* the labellings label_components may return for a graph of at most NV vertices
ComponentLabellings == UNION {[1..n -> 0..(NV - 1)] : n \in 0..NV}

\* the graphs a file may hold
SavedGraphs == {StoreGraph(t) : t \in {"graph", "edge"}}

StructNext ==
  \/ EdgeMeshes
  \/ AddVertex
  \/ \E i \in 1..MaxEdges : RemoveEdge(i)
  \/ \E x \in PropertyValues : DefineVertexProperty("a", x)
  \/ RemoveVertexProperty("a")
  \/ RemoveIsolatedVertices
  \/ RemoveIsolatedEdges
  \/ \E components \in ComponentLabellings : LargestComponent(components)
  \/ \E G \in SavedGraphs : Load(G)

\* ------------------------------------------------- geometry from a property
\* the values of the edge property 'a'
EdgeValues == {1, 2}

\* the graphs the calls are made on: graphs on NV vertices with one to
\* MaxEdges edges in either mode, 'coordinates' set for every edge with up to
\* MaxLen samples each, and the edge property 'a' defined
PropertyGraphs(directed) ==
  LET bare == {[NewGraph(t, directed) EXCEPT !.edges = SetToSeq(E)] :
                 t \in {"graph", "edge"},
                 E \in {F \in SUBSET ((0..(NV - 1)) \X (0..(NV - 1))) :
                          Cardinality(F) <= MaxEdges}}
      withGeometry ==
        UNION {{set_edge_geometry(G, "coordinates",
                                  ListArg(GeometryList(G, "coordinates", <<L, TRUE>>)),
                                  None, None).g :
                  L \in [1..n_edges(G) -> 1..MaxLen]} :
               G \in {B \in bare : n_edges(B) > 0}}
  IN UNION {{define_edge_property(G, "a", a) : a \in [1..n_edges(G) -> EdgeValues]} :
            G \in withGeometry}

PropertyInit ==
  /\ g \in PropertyGraphs(FALSE)
  /\ sub = <<>> /\ view = <<>> /\ err = "none" /\ added = 0
  /\ last = Call("init", "", <<>>)

\* Graph.edge_geometry_from_edge_property(p, name)
EdgeGeometryFromEdgeProperty(p, name) ==
  /\ Returns(edge_geometry_from_edge_property(g, p, name),
             Call("edge_geometry_from_edge_property", p, name))
  /\ UNCHANGED <<morphVars, rangeVars, edgeVars>>

PropertyNext ==
  \/ \E p \in PropertyNames, name \in {None, Some("radii")} :
       EdgeGeometryFromEdgeProperty(p, name)
  \/ \E i \in 1..MaxEdges : RemoveEdge(i)
  \/ \E type \in {"graph", "edge"} : SetEdgeGeometryType(type)

\* ----------------------------------------------------------- specifications
\* the edge-geometry store
Init == GeomInit /\ MorphIdle /\ RangeIdle /\ EdgeIdle
Next == GeomNext
Spec == Init /\ [][Next]_vars

\* the morphological operators
InitMorph == g \in MorphGraphs /\ GeomIdle /\ MorphIdle /\ RangeIdle /\ EdgeIdle
NextMorph == MorphNext
SpecMorph == InitMorph /\ [][NextMorph]_vars

\* the range computations
InitRanges ==
  g = NewGraph("graph", FALSE) /\ GeomIdle /\ MorphIdle /\ RangeInit /\ EdgeIdle
NextRanges == RangeNext
SpecRanges == InitRanges /\ [][NextRanges]_vars

\* the morphological operators, with a call that has started running to its end:
\* the loop of vertex_propagate and the statements after it are always executed
SpecMorphFair ==
  /\ SpecMorph
  /\ WF_vars(PropagateRound) /\ WF_vars(SecondPropagation) /\ WF_vars(ReturnLabel)

\* remap_array_ranges
InitRemap ==
  g = NewGraph("graph", FALSE) /\ GeomIdle /\ MorphIdle /\ RemapInit /\ EdgeIdle
NextRemap == RemapNext
SpecRemap == InitRemap /\ [][NextRemap]_vars

\* edge_propagate
InitEdge == g \in MorphGraphs /\ GeomIdle /\ MorphIdle /\ RangeIdle /\ EdgeIdle
NextEdge == EdgeNext
SpecEdge == InitEdge /\ [][NextEdge]_vars

\* the property store
InitStore == StoreInit /\ MorphIdle /\ RangeIdle /\ EdgeIdle
NextStore == StoreNext
SpecStore == InitStore /\ [][NextStore]_vars

\* the structure operations and the mesh cache
InitStruct == StructInit /\ MorphIdle /\ RangeIdle /\ EdgeIdle
NextStruct == StructNext
SpecStruct == InitStruct /\ [][NextStruct]_vars

\* edge_geometry_from_edge_property
InitProperty == PropertyInit /\ MorphIdle /\ RangeIdle /\ EdgeIdle
NextProperty == PropertyNext
SpecProperty == InitProperty /\ [][NextProperty]_vars

\* ------------------------------------------------------------------ claims
\* sum(L[:k])
PrefixSum(L, k) == SumSeq(SubSeq(L, 1, k))

\* C5 - packing law: the ranges computed for a list of per-edge lengths L, when
\* geometry is set from a list in packed mode and when they are derived in
\* scattered mode, are ranges[i] = (sum(L[:i]), sum(L[:i+1])), and the range
\* lengths add up to sum(L)
PackingLaw ==
  rop \in {"packed", "scattered"} =>
    /\ Len(rng) = Len(lens)
    /\ \A i \in 1..Len(lens) : rng[i] = <<PrefixSum(lens, i - 1), PrefixSum(lens, i)>>
    /\ SumSeq(RangeLengths(rng)) = SumSeq(lens)

\* ranges were computed for a list of MaxRanges lengths, one of them zero and one not
PackingLawWitness ==
  /\ rop \in {"packed", "scattered"}
  /\ Len(lens) = MaxRanges
  /\ \E i \in 1..Len(lens) : lens[i] = 0
  /\ \E i \in 1..Len(lens) : lens[i] > 0
  /\ rng[Len(rng)][2] = SumSeq(lens)

\* C4 - compaction idempotence: the ranges resize_edge_geometry writes keep every
\* edge's length (end - start), and compacting them a second time writes the same
\* ranges again
CompactionIdempotent ==
  /\ rop \in {"compact", "compact2"} => RangeLengths(rng) = RangeLengths(rng0)
  /\ rop = "compact2" => rng = rng0

\* a range list with gaps or overlaps was compacted twice
CompactionWitness ==
  /\ rop = "compact2"
  /\ Len(rng) = MaxRanges
  /\ RangeLengths(rng) = lens
  /\ \E i \in 1..Len(lens) : lens[i] > 0

\* a first compaction moved the ranges of a list with gaps or overlaps
CompactionMovesRanges == rop = "compact" /\ rng # rng0 /\ Len(rng) >= 2

\* v is adjacent to u: an edge leads from u to v (in either direction when the
\* graph is undirected)
AdjacentTo(G, u, v) ==
  \E i \in 1..Len(G.edges) :
    \/ G.edges[i] = <<u, v>>
    \/ ~G.directed /\ G.edges[i] = <<v, u>>

TrueSet(l) == {v \in 1..Len(l) : l[v]}

\* C10 - vertex_propagate round semantics: after a round a vertex holds value
\* exactly when it held value before the round or is adjacent to a vertex that
\* did, every other vertex keeps its label; on the path graph 0-1-2-3-4 dilating
\* [F,F,T,F,F] gives [F,T,T,T,F] after one round and [T,T,T,T,T] after two
PropagateRoundSemantics ==
  /\ rounds > 0 =>
       LET value == PropagatedValue(mop, phase)
       IN \A v \in 1..g.nv :
            /\ (label[v] = value) <=>
                 \/ prev[v] = value
                 \/ \E u \in 1..g.nv : prev[u] = value /\ AdjacentTo(g, u - 1, v - 1)
            /\ label[v] # value => label[v] = prev[v]
  /\ (/\ g = TestPathGraph(FALSE)
      /\ mop = "dilate"
      /\ label0 = <<FALSE, FALSE, TRUE, FALSE, FALSE>>) =>
       /\ rounds = 1 => label = <<FALSE, TRUE, TRUE, TRUE, FALSE>>
       /\ rounds = 2 => label = <<TRUE, TRUE, TRUE, TRUE, TRUE>>

\* the second dilation round of [F,F,T,F,F] on the undirected path graph is done
PropagateRoundWitness ==
  /\ g = TestPathGraph(FALSE)
  /\ mop = "dilate"
  /\ label0 = <<FALSE, FALSE, TRUE, FALSE, FALSE>>
  /\ rounds = 2
  /\ prev = <<FALSE, TRUE, TRUE, TRUE, FALSE>>
  /\ label = <<TRUE, TRUE, TRUE, TRUE, TRUE>>

\* every round of vertex_dilate_binary grows the True-set, every round of
\* vertex_erode_binary shrinks it
RoundsMonotone ==
  /\ mop = "dilate" /\ rounds > 0 => TrueSet(prev) \subseteq TrueSet(label)
  /\ mop = "erode" /\ rounds > 0 => TrueSet(label) \subseteq TrueSet(prev)

\* C9 as stated - morphology monotonicity on any graph, directed or undirected:
\* dilation rounds grow the True-set, erosion rounds shrink it, and
\* vertex_open_binary(label) is a subset of label, which is a subset of
\* vertex_close_binary(label)
MorphologyMonotoneAnyGraph ==
  /\ RoundsMonotone
  /\ pc = "done" /\ mop = "open" => TrueSet(label) \subseteq TrueSet(label0)
  /\ pc = "done" /\ mop = "close" => TrueSet(label0) \subseteq TrueSet(label)

\* C9 as amended - dilation rounds grow and erosion rounds shrink the True-set on
\* any graph; on an undirected graph vertex_open_binary(label) is a subset of
\* label, which is a subset of vertex_close_binary(label)
MorphologyMonotoneUndirected ==
  /\ RoundsMonotone
  /\ pc = "done" /\ mop = "open" /\ ~g.directed =>
       TrueSet(label) \subseteq TrueSet(label0)
  /\ pc = "done" /\ mop = "close" /\ ~g.directed =>
       TrueSet(label0) \subseteq TrueSet(label)

\* an opening on an undirected graph that removed vertices from the label
MorphologyWitness ==
  /\ pc = "done" /\ mop = "open" /\ ~g.directed /\ nsteps > 0
  /\ TrueSet(label) # TrueSet(label0)
  /\ TrueSet(label) # {}

\* the length (end - start) of an edge's range; an edge that has no range yet
\* (added after the geometry was set) holds no samples
RangeLength(r) == IF Len(r) = 2 THEN r[2] - r[1] ELSE 0

\* geometry is set for every edge of G: in packed mode every edge has a non-empty
\* range inside every packed array, in scattered mode a non-empty array
GeometrySetForEveryEdge(G) ==
  /\ has_edge_geometry(G, "coordinates")
  /\ IF edge_geometry_type(G) = "graph"
     THEN /\ HasIndices(G)
          /\ IsPairs(G.ep[IndicesName])
          /\ \A p \in edge_geometry_property_names(G), i \in 1..n_edges(G) :
               LET r == G.ep[IndicesName][i]
               IN 0 <= r[1] /\ r[1] < r[2] /\ r[2] <= Len(G.gp[p])
     ELSE \A p \in edge_geometry_property_names(G), i \in 1..n_edges(G) :
            G.ep[p][i] # <<>>

\* C1 - round-trip mode conversion: on a packed graph with populated geometry,
\* set_edge_geometry_type('edge') completes, and set_edge_geometry_type('graph')
\* after it completes and gives back, for every attribute, the per-edge sample
\* sequences the graph held before
RoundTripConversion ==
  [][(/\ edge_geometry_type(g) = "graph"
      /\ n_edges(g) > 0
      /\ GeometrySetForEveryEdge(g)
      /\ last'.op = "set_edge_geometry_type"
      /\ last'.name = "edge")
     => /\ err' = "none"
        /\ edge_geometry_type(g') = "edge"
        /\ LET back == set_edge_geometry_type(g', "graph")
           IN /\ back.err = "none"
              /\ edge_geometry_type(back.g) = "graph"
              /\ \A name \in edge_geometry_properties(g) :
                   edge_geometry(back.g, name, TRUE) = edge_geometry(g, name, TRUE)]_vars

\* the edges a vertex filter keeps: both endpoints are kept; in their order
Survivors(G, vf) ==
  Pick([i \in 1..n_edges(G) |-> i],
       {i \in 1..n_edges(G) : vf[G.edges[i][1] + 1] /\ vf[G.edges[i][2] + 1]})

\* what C2 asks of the graph s returned for the packed graph G and the filter vf
CompactedFrom(s, G, vf) ==
  LET kept == Survivors(G, vf)
      old == [k \in 1..Len(kept) |-> G.ep[IndicesName][kept[k]]]
      L == [k \in 1..Len(kept) |-> old[k][2] - old[k][1]]
  IN /\ n_edges(s) = Len(kept)
     /\ HasIndices(s)
     /\ s.ep[IndicesName] =
          [k \in 1..Len(kept) |-> <<PrefixSum(L, k - 1), PrefixSum(L, k)>>]
     /\ \A p \in edge_geometry_property_names(G) :
          /\ p \in DOMAIN s.gp
          /\ Len(s.gp[p]) = SumSeq(L)
          /\ s.gp[p] = Concat([k \in 1..Len(kept) |->
                                 Slice(G.gp[p], old[k][1], old[k][2])])

\* C2 - sub-graph compaction: for a packed graph with geometry set for every
\* edge, sub_graph(vertex_filter=V) returns a graph whose indices are the prefix
\* sums of the surviving edges' lengths in their order and whose packed arrays
\* hold exactly the surviving edges' samples
SubGraphCompaction ==
  (/\ last.op = "sub_graph"
   /\ edge_geometry_type(g) = "graph"
   /\ GeometrySetForEveryEdge(g))
  => /\ sub # <<>>
     /\ CompactedFrom(sub[1], g, last.arg)

\* the same when at least one edge survives the filter
SubGraphCompactionOfSurvivors ==
  (/\ last.op = "sub_graph"
   /\ edge_geometry_type(g) = "graph"
   /\ GeometrySetForEveryEdge(g)
   /\ Survivors(g, last.arg) # <<>>)
  => /\ sub # <<>>
     /\ CompactedFrom(sub[1], g, last.arg)

\* in packed mode every packed array of G is as long as the ranges of G's edges
\* taken together
PackedLengthOf(G) ==
  edge_geometry_type(G) = "graph" =>
    \A p \in edge_geometry_property_names(G) :
      /\ HasIndices(G)
      /\ Len(G.gp[p]) = SumSeq([i \in 1..n_edges(G) |->
                                  RangeLength(G.ep[IndicesName][i])])

\* C3 - packed-length invariant: in packed mode, after any sequence of
\* set_edge_geometry, add_edge, remove_edge, sub_graph, resize_edge_geometry and
\* set_edge_geometry_type calls, every packed array is as long as the sum of
\* (end - start) over the current edges
PackedLengthInvariant ==
  /\ PackedLengthOf(g)
  /\ sub # <<>> => PackedLengthOf(sub[1])

\* the graph with the edges of g, in the other mode, after the call that set g's
\* geometry last
TwinGraph ==
  LET other == IF edge_geometry_type(g) = "graph" THEN "edge" ELSE "graph"
  IN set_edge_geometry([NewGraph(other, g.directed) EXCEPT !.edges = g.edges],
                       last.name, ListArg(last.arg), None, None).g

\* C6 - mode transparency: for the same edges (at least one) and the same per-edge
\* geometry set through set_edge_geometry, edge_geometry(attr, as_list=True)
\* returns the same per-edge sequences and edge_geometry(attr, as_list=False) the
\* same concatenation in packed and in scattered mode
ModeTransparency ==
  last.op = "set_edge_geometry" /\ err = "none" /\ n_edges(g) > 0 =>
    /\ edge_geometry(g, last.name, TRUE) = edge_geometry(TwinGraph, last.name, TRUE)
    /\ edge_geometry(g, last.name, TRUE) = List(last.arg)
    /\ edge_geometry(g, last.name, FALSE) = edge_geometry(TwinGraph, last.name, FALSE)
    /\ edge_geometry(g, last.name, FALSE) = Flat(Concat(last.arg))

\* the same for the vector attributes ('coordinates', 'mesh') alone
ModeTransparencyOfVectors ==
  (/\ last.op = "set_edge_geometry" /\ err = "none" /\ n_edges(g) > 0
   /\ last.name \in VectorNames) =>
    /\ edge_geometry(g, last.name, TRUE) = edge_geometry(TwinGraph, last.name, TRUE)
    /\ edge_geometry(g, last.name, TRUE) = List(last.arg)
    /\ edge_geometry(g, last.name, FALSE) = edge_geometry(TwinGraph, last.name, FALSE)
    /\ edge_geometry(g, last.name, FALSE) = Flat(Concat(last.arg))

SubGraphConsistency ==
  (/\ last.op = "sub_graph"
   /\ GeometrySetForEveryEdge(g)
   /\ is_edge_geometry_consistent(g) = "True")
  => /\ sub # <<>>
     /\ is_edge_geometry_consistent(sub[1]) = "True"

\* the same when at least one edge survives the filter
SubGraphConsistencyOfSurvivors ==
  (/\ last.op = "sub_graph"
   /\ GeometrySetForEveryEdge(g)
   /\ is_edge_geometry_consistent(g) = "True"
   /\ Survivors(g, last.arg) # <<>>)
  => /\ sub # <<>>
     /\ is_edge_geometry_consistent(sub[1]) = "True"

\* np.logical_not(label)
Complement(l) == [v \in 1..Len(l) |-> ~l[v]]

AllTrue(n) == [v \in 1..n |-> TRUE]

\* C11 as stated - erosion scenario: on the path graph 0-1-2-3-4, one step of
\* vertex_erode_binary applied to [T,T,T,T,T] yields [F,T,T,T,F]
ErosionScenario ==
  (/\ g = TestPathGraph(FALSE)
   /\ mop = "erode"
   /\ label0 = AllTrue(5)
   /\ rounds = 1) => label = <<FALSE, TRUE, TRUE, TRUE, FALSE>>

\* C11 as amended - on the path graph 0-1-2-3-4, vertex_erode_binary applied to
\* [T,T,T,T,T] yields [T,T,T,T,T] after every round: no vertex holds False, so a
\* round has nothing to propagate
ErosionOfAllTrue ==
  (/\ g = TestPathGraph(FALSE)
   /\ mop = "erode"
   /\ label0 = AllTrue(5)) => label = AllTrue(5)

\* one erosion step of [T,T,T,T,T] on the undirected path graph has returned
ErosionWitness ==
  /\ g = TestPathGraph(FALSE)
  /\ mop = "erode"
  /\ label0 = AllTrue(5)
  /\ nsteps = 1 /\ rounds = 1 /\ pc = "done"

\* C12 - erosion/dilation duality: on any graph, for any boolean label and any
\* steps >= 0, vertex_erode_binary(label, steps) is the complement of
\* vertex_dilate_binary(complement of label, steps)
ErosionDilationDuality ==
  pc = "done" /\ mop = "erode" =>
    label = Complement(vertex_dilate_binary(g, Complement(label0), nsteps))

\* an erosion of MaxSteps steps on a directed graph has returned a label that is
\* neither the one passed nor all False
DualityWitness ==
  /\ pc = "done" /\ mop = "erode" /\ nsteps = MaxSteps
  /\ g.directed
  /\ label # label0
  /\ TrueSet(label) # {}

\* C15 - single-edge write in packed mode: set_edge_geometry(name, values, edge=e)
\* with an edge given fails with NotImplementedError on a packed graph and leaves
\* the packed arrays, the indices attribute and the mode flag as they were
SingleEdgeWriteFails ==
  [][last'.op = "set_edge_geometry_of_edge" =>
       /\ err' = "NotImplementedError"
       /\ g'.gp = g.gp
       /\ g'.ep = g.ep
       /\ g' = g]_vars

\* a single-edge write was refused on a packed graph that holds geometry and
\* ranges for MaxEdges edges
SingleEdgeWriteWitness ==
  /\ last.op = "set_edge_geometry_of_edge"
  /\ err = "NotImplementedError"
  /\ edge_geometry_type(g) = "graph"
  /\ n_edges(g) = MaxEdges
  /\ HasIndices(g)
  /\ has_edge_geometry(g, "coordinates")

\* C16 - conversion to the current mode is a no-op: set_edge_geometry_type(m) on a
\* graph whose mode flag is m raises nothing and leaves the mode flag, every
\* geometry attribute, the indices attribute and every other property as they were
SameModeConversionNoOp ==
  [][(/\ last'.op = "set_edge_geometry_type"
      /\ last'.name = edge_geometry_type(g))
     => /\ err' = "none"
        /\ edge_geometry_type(g') = edge_geometry_type(g)
        /\ g'.gp = g.gp
        /\ g'.ep = g.ep
        /\ g' = g]_vars

\* set_edge_geometry_type was called for the mode of a graph that holds geometry
\* for MaxEdges edges, and returned
SameModeConversionWitness ==
  /\ last.op = "set_edge_geometry_type"
  /\ last.name = edge_geometry_type(g)
  /\ err = "none"
  /\ n_edges(g) = MaxEdges
  /\ edge_geometry_properties(g) = GeometryNames

\* C20 - view extraction: sub_graph(vertex_filter=V, view=True) returns a view whose
\* vertices and edges are the surviving ones under their ids in the owner, with
\* the owner's endpoints, and whose geometry store is the owner's: the packed
\* arrays, the mode flag and the surviving edges' index ranges (every edge
\* attribute) are the owner's, nothing is resized
ViewExtraction ==
  last.op = "sub_graph_view" =>
    /\ view # <<>>
    /\ LET W == view[1]
           vf == last.arg
           survivors == {i \in 1..n_edges(g) :
                           vf[g.edges[i][1] + 1] /\ vf[g.edges[i][2] + 1]}
       IN /\ view_vertices(W) = {v \in 0..(g.nv - 1) : vf[v + 1]}
          /\ view_edges(W) = survivors
          /\ \A i \in survivors : W.base.edges[i] = g.edges[i]
          /\ W.base.gp = g.gp
          /\ DOMAIN W.base.ep = DOMAIN g.ep
          /\ \A n \in DOMAIN g.ep : \A i \in survivors : W.base.ep[n][i] = g.ep[n][i]

\* a view of a packed graph with geometry for MaxEdges edges dropped vertex 0 and
\* kept an edge whose range does not start at 0
ViewExtractionWitness ==
  /\ last.op = "sub_graph_view"
  /\ view # <<>>
  /\ edge_geometry_type(g) = "graph"
  /\ n_edges(g) = MaxEdges
  /\ GeometrySetForEveryEdge(g)
  /\ ~last.arg[1]
  /\ \E i \in view_edges(view[1]) : g.ep[IndicesName][i][1] > 0

\* what C13 asks of a round that turned the edge label before into after
EdgeRound(G, before, after, value) ==
  LET E == {i \in 1..Len(before) : before[i] = value}
      V == UNION {{G.edges[i][1], G.edges[i][2]} : i \in E}
      touching == {i \in 1..n_edges(G) : G.edges[i][1] \in V \/ G.edges[i][2] \in V}
  IN \A i \in 1..Len(before) :
       after[i] = IF i \in touching THEN value ELSE before[i]

\* C13 - edge_propagate round semantics: with E the edges equal to value at the
\* start of a round and V the vertices incident to an edge of E, after the round
\* every edge touching a vertex of V, incoming or outgoing, on a directed or an
\* undirected graph, equals value, and every other edge keeps its label
EdgePropagateRoundSemantics ==
  erounds > 0 => EdgeRound(g, eprev, elabel, evalue)

\* the same on undirected graphs alone
EdgePropagateRoundUndirected ==
  erounds > 0 /\ ~g.directed => EdgeRound(g, eprev, elabel, evalue)

\* a round on an undirected graph gave value to an edge that did not hold it
EdgePropagateRoundWritten ==
  erounds > 0 /\ ~g.directed /\ elabel # eprev

\* the three attribute tables of G
Tables(G) == <<G.vp, G.ep, G.gp>>

\* the table a call is about, for the table index k
TableOps(k) ==
  IF k = 1 THEN [set |-> "set_vertex_property", remove |-> "remove_vertex_property"]
  ELSE IF k = 2 THEN [set |-> "set_edge_property", remove |-> "remove_edge_property"]
  ELSE [set |-> "set_graph_property", remove |-> "remove_graph_property"]

\* C17 - absent attribute: remove_vertex_property, remove_edge_property,
\* remove_graph_property and the set_* operations fail with an error and leave
\* every attribute table unchanged when the name is not in their table; with a
\* name that is present, remove deletes exactly that attribute and no other
AbsentAttribute ==
  [][\A k \in 1..3 :
       /\ (/\ last'.op \in {TableOps(k).set, TableOps(k).remove}
           /\ last'.name \notin DOMAIN Tables(g)[k])
          => /\ err' # "none"
             /\ Tables(g') = Tables(g)
       /\ (/\ last'.op = TableOps(k).remove
           /\ last'.name \in DOMAIN Tables(g)[k])
          => /\ err' = "none"
             /\ DOMAIN Tables(g')[k] = DOMAIN Tables(g)[k] \ {last'.name}
             /\ \A n \in DOMAIN Tables(g')[k] : Tables(g')[k][n] = Tables(g)[k][n]
             /\ \A j \in (1..3) \ {k} : Tables(g')[j] = Tables(g)[j]]_vars

\* remove_vertex_property was refused for a name that is not in the vertex table
\* while every table holds an attribute
AbsentAttributeWitness ==
  /\ last.op = "remove_vertex_property"
  /\ err = "ValueError"
  /\ last.name \notin DOMAIN g.vp
  /\ DOMAIN g.vp # {} /\ DOMAIN g.ep # {}
  /\ PropertyNames \subseteq DOMAIN g.gp

\* the number of edge ends at v: out-edges and in-edges
TotalDegree(G, v) ==
  Cardinality({i \in 1..n_edges(G) : G.edges[i][1] = v})
  + Cardinality({i \in 1..n_edges(G) : G.edges[i][2] = v})

\* the edges C18 has removed from G: both endpoints have total degree 1
IsolatedEdges(G) ==
  {i \in 1..n_edges(G) :
     /\ TotalDegree(G, G.edges[i][1]) = 1
     /\ TotalDegree(G, G.edges[i][2]) = 1}

\* what C18 asks of the graph H that remove_isolated_edges made of G
IsolatedEdgesRemovedFrom(G, H) ==
  LET keptE == (1..n_edges(G)) \ IsolatedEdges(G)
      keptV == UNION {{G.edges[i][1], G.edges[i][2]} : i \in keptE}
      expected == Prune(G, [v \in 1..G.nv |-> (v - 1) \in keptV],
                        [i \in 1..n_edges(G) |-> i \in keptE])
  IN /\ H.nv = expected.nv
     /\ H.edges = expected.edges
     /\ H.vc = expected.vc

\* C18 - remove_isolated_edges: on any graph, directed or undirected, the edges
\* removed are exactly those both of whose endpoints have total degree 1 before
\* any removal, then every vertex left with degree 0 is removed, and every other
\* edge survives
IsolatedEdgesRemoved ==
  [][last'.op = "remove_isolated_edges" =>
       /\ err' = "none"
       /\ IsolatedEdgesRemovedFrom(g, g')]_vars

\* the same on undirected graphs, when an edge survives or no packed coordinates
\* are stored
IsolatedEdgesRemovedUndirected ==
  [][(/\ last'.op = "remove_isolated_edges"
      /\ ~g.directed
      /\ \/ IsolatedEdges(g) # 1..n_edges(g)
         \/ ~(edge_geometry_type(g) = "graph" /\ has_edge_geometry(g, "coordinates")))
     => /\ err' = "none"
        /\ IsolatedEdgesRemovedFrom(g, g')]_vars

\* the label C19 selects: the lowest label with the maximum vertex count
LowestLargestLabel(components) ==
  LET count(l) == Cardinality({v \in 1..Len(components) : components[v] = l})
      labels == {components[v] : v \in 1..Len(components)}
  IN CHOOSE l \in labels :
       /\ \A k \in labels : count(k) <= count(l)
       /\ \A k \in labels : count(k) = count(l) => l <= k

\* s is the sub-graph of G on the vertices whose label in components has the
\* maximum vertex count, the lowest such label when several tie
LargestOf(s, G, components) ==
  LET L == LowestLargestLabel(components)
      members == {v \in 1..G.nv : components[v] = L}
  IN /\ s.nv = Cardinality(members)
     /\ s.vc = Pick(G.vc, members)
     /\ n_edges(s) =
          Cardinality({i \in 1..n_edges(G) :
                         /\ (G.edges[i][1] + 1) \in members
                         /\ (G.edges[i][2] + 1) \in members})

\* C19 - largest_component: on a graph with at least one vertex, a sub-graph is
\* returned, and it consists of exactly the vertices whose component label has
\* the maximum vertex count, the lowest such label when several tie
LargestComponentSelected ==
  last.op = "largest_component" /\ g.nv > 0 =>
    /\ sub # <<>>
    /\ LargestOf(sub[1], g, last.arg)

\* the same for the calls that return a sub-graph
LargestComponentWhenReturned ==
  last.op = "largest_component" /\ err = "none" =>
    /\ sub # <<>>
    /\ LargestOf(sub[1], g, last.arg)

\* largest_component returned a sub-graph where several labels tie for the
\* maximum count
LargestComponentWitness ==
  /\ last.op = "largest_component" /\ err = "none" /\ sub # <<>>
  /\ g.nv = NV
  /\ \E u, v \in 1..g.nv :
       /\ last.arg[u] # last.arg[v]
       /\ \A l \in {last.arg[w] : w \in 1..g.nv} :
            Cardinality({w \in 1..g.nv : last.arg[w] = l})
              = Cardinality({w \in 1..g.nv : last.arg[w] = last.arg[u]})

\* C14 - no stale mesh cache: after any sequence of edge_meshes reads and
\* mutations, a read of edge_meshes returns the meshes of the graph as it is now,
\* never meshes computed before the most recent mutation
NoStaleMesh ==
  last.op = "edge_meshes" /\ err = "none" =>
    LET fresh == mesh_tube(g, [i \in 1..n_edges(g) |-> i - 1])
    IN /\ fresh.err = "none"
       /\ g.mesh = Some(fresh.data)

\* the same as long as remove_isolated_vertices, remove_isolated_edges and load
\* have not been called
NoStaleMeshAfterInvalidation ==
  [][(/\ g.mesh = None \/ g.mesh = Some(mesh_tube(g, [i \in 1..n_edges(g) |-> i - 1]).data)
      /\ last'.op \notin {"remove_isolated_vertices", "remove_isolated_edges", "load"})
     => \/ g'.mesh = None
        \/ g'.mesh = Some(mesh_tube(g', [i \in 1..n_edges(g') |-> i - 1]).data)]_vars

\* the pairs of the last remap whose old and new range differ in length
LengthMismatches ==
  {i \in 1..Len(rmp.old) : RangeLength(rmp.old[i]) # RangeLength(rmp.new[i])}

\* C21: the remap of a packed array from old ranges to new ranges fails with a
\* consistency error whenever some old range differs in length from its new range;
\* when it returns an array, every pair of ranges has one length and every source
\* slice holds as many samples as its target slice: no copy was truncated, padded
\* or duplicated
RemapLengthGuard ==
  rmp # <<>> =>
    /\ LengthMismatches # {} => rmp.out.err = "ConsistencyError"
    /\ rmp.out.err = "none" =>
         \A i \in 1..Len(rmp.old) :
           /\ RangeLength(rmp.old[i]) = RangeLength(rmp.new[i])
           /\ Len(Slice(rmp.prop, rmp.old[i][1], rmp.old[i][2]))
                = Len(Slice(rmp.out.data, rmp.new[i][1], rmp.new[i][2]))

\* a remap of two ranges, one of them of another length in the new list although
\* both slices hold the same number of samples, has failed
RemapLengthGuardWitness ==
  /\ rmp # <<>>
  /\ Len(rmp.old) = 2
  /\ LengthMismatches # {}
  /\ \E i \in LengthMismatches :
       /\ Len(Slice(rmp.prop, rmp.old[i][1], rmp.old[i][2])) > 0
       /\ Len(Slice(rmp.prop, rmp.old[i][1], rmp.old[i][2]))
            = Min(rmp.new[i][2], rmp.size) - rmp.new[i][1]
  /\ rmp.out.err = "ConsistencyError"

\* C22: resize_edge_geometry fully succeeds or fails without partial mutation: when
\* the call raises, the indices attribute and every packed array hold the values
\* they had before the call
ResizeFailureAtomic ==
  [][(last'.op = "resize_edge_geometry" /\ err' # "none") =>
       /\ g'.ep = g.ep
       /\ g'.gp = g.gp]_vars

\* H holds the ranges of G compacted and, for every packed geometry attribute of G,
\* the samples each edge had in G
ResizedFrom(H, G) ==
  /\ HasIndices(H)
  /\ H.ep[IndicesName] = compact(G.ep[IndicesName])
  /\ \A p \in edge_geometry_property_names(G) :
       /\ p \in DOMAIN H.gp
       /\ \A i \in 1..n_edges(G) :
            Slice(H.gp[p], H.ep[IndicesName][i][1], H.ep[IndicesName][i][2])
              = Slice(G.gp[p], G.ep[IndicesName][i][1], G.ep[IndicesName][i][2])

\* the ranges of G lie inside every packed geometry array of G
RangesInsideArrays(G) ==
  \A p \in edge_geometry_property_names(G) : \A i \in 1..n_edges(G) :
    /\ G.ep[IndicesName][i][1] <= G.ep[IndicesName][i][2]
    /\ G.ep[IndicesName][i][2] <= Len(G.gp[p])

\* a packed graph with edges, the indices attribute and every range inside the arrays
Resizable(G) ==
  /\ edge_geometry_type(G) = "graph"
  /\ HasIndices(G)
  /\ IsPairs(G.ep[IndicesName])
  /\ n_edges(G) > 0
  /\ RangesInsideArrays(G)

\* C23: in packed mode, whenever the indices attribute exists, resize_edge_geometry
\* rewrites indices to the compacted ranges and remaps every packed geometry
\* attribute present with those ranges, also when 'coordinates' is not among them;
\* afterwards each attribute's per-edge slices are those before the call (stated
\* for a graph with edges whose ranges lie inside the packed arrays)
ResizeCoversEveryAttribute ==
  [][(last'.op = "resize_edge_geometry" /\ Resizable(g))
       => (err' = "none" /\ ResizedFrom(g', g))]_vars

\* the same for a graph that holds 'coordinates'
ResizeCoversWithCoordinates ==
  [][(/\ last'.op = "resize_edge_geometry"
      /\ Resizable(g)
      /\ has_edge_geometry(g, "coordinates"))
       => (err' = "none" /\ ResizedFrom(g', g))]_vars

\* C24: sub_graph with view=False or view=True leaves the graph it is called on
\* unchanged: its vertices, edges, mode flag, indices attribute and packed geometry
\* arrays are the same after the call, also when the returned graph's geometry was
\* compacted
OwnerUnchangedBySubGraph ==
  [][last'.op \in {"sub_graph", "sub_graph_view"} => g' = g]_vars

\* sub_graph has returned a graph with fewer edges than its owner and with packed
\* arrays compacted to the surviving edges' samples
OwnerUnchangedWitness ==
  /\ last.op = "sub_graph"
  /\ sub # <<>>
  /\ edge_geometry_type(g) = "graph"
  /\ has_edge_geometry(g, "coordinates")
  /\ 0 < n_edges(sub[1]) /\ n_edges(sub[1]) < n_edges(g)
  /\ sub[1].gp # g.gp
  /\ sub[1].ep # g.ep

\* G is a packed graph with 'coordinates' geometry set for at least one edge
PackedWithGeometry(G) ==
  /\ edge_geometry_type(G) = "graph"
  /\ has_edge_geometry(G, "coordinates")
  /\ HasIndices(G)
  /\ n_edges(G) > 0

\* H has no edge, an empty indices attribute and packed arrays of length 0
EmptyGeometry(H) ==
  /\ n_edges(H) = 0
  /\ HasIndices(H) /\ H.ep[IndicesName] = <<>>
  /\ \A p \in edge_geometry_property_names(H) : H.gp[p] = <<>>

\* C25: for a packed graph with geometry set, sub_graph(view=False) with a filter
\* that removes every edge completes without error and returns a graph with zero
\* edges, an empty indices attribute and packed arrays of length 0
EmptySubGraph ==
  (/\ last.op = "sub_graph"
   /\ PackedWithGeometry(g)
   /\ Survivors(g, last.arg) = <<>>)
    => (/\ err = "none"
        /\ sub # <<>>
        /\ EmptyGeometry(sub[1]))

\* the same for remove_isolated_edges on a packed graph with geometry set whose
\* edges all join two vertices of total degree 1
EmptyAfterIsolatedEdges ==
  [][(/\ last'.op = "remove_isolated_edges"
      /\ PackedWithGeometry(g)
      /\ ~g.directed
      /\ IsolatedEdges(g) = 1..n_edges(g))
       => (err' = "none" /\ EmptyGeometry(g'))]_vars

\* G is connected: every vertex is reached from vertex 0
Connected(G) == G.nv > 0 /\ ReachableFrom(G, {0}) = 0..(G.nv - 1)

RECURSIVE RepeatedDilation(_, _, _)
\* k calls of vertex_dilate_binary(label, steps=1), each on the result of the last
RepeatedDilation(G, lab, k) ==
  IF k = 0 THEN lab
  ELSE RepeatedDilation(G, vertex_dilate_binary(G, lab, 1), k - 1)

\* the running call is a dilation of a label with a True vertex on a connected
\* undirected graph
DilationOfConnected ==
  /\ mop = "dilate"
  /\ ~g.directed
  /\ Connected(g)
  /\ TrueSet(label0) # {}

\* after n-1 rounds, in one call or in n-1 single-step calls, the label is all-True
DilationReachesAllTrue ==
  DilationOfConnected =>
    /\ rounds >= g.nv - 1 => label = AllTrue(g.nv)
    /\ RepeatedDilation(g, label0, g.nv - 1) = AllTrue(g.nv)
    /\ \A k \in 0..(g.nv - 1) :
         RepeatedDilation(g, label0, k) = vertex_dilate_binary(g, label0, k)

\* a round that follows a round which left the label unchanged leaves it unchanged
DilationStable ==
  (mop = "dilate" /\ pc = "run" /\ rounds > 0 /\ label = prev /\ rounds' = rounds + 1)
    => label' = label

\* C26: on a connected undirected graph with n vertices and a label with a True
\* vertex, repeated single-step vertex_dilate_binary reaches the all-True label
\* after at most n-1 rounds; once a round leaves the label unchanged every further
\* round leaves it unchanged; and vertex_propagate terminates for every steps >= 0
DilationFixpoint ==
  /\ []DilationReachesAllTrue
  /\ [][DilationStable]_vars
  /\ (pc = "run") ~> (pc = "done")

\* a dilation from one end of a path of NV vertices has returned the all-True label
\* and needed every one of its NV - 1 rounds
DilationFixpointWitness ==
  /\ DilationOfConnected
  /\ g.nv = NV
  /\ pc = "done"
  /\ Cardinality(TrueSet(label0)) = 1
  /\ rounds = g.nv - 1
  /\ label = AllTrue(g.nv)
  /\ prev # label

\* G is in packed mode and its ranges are the canonical packing of their lengths
CanonicalPacking(G) ==
  /\ edge_geometry_type(G) = "graph"
  /\ HasIndices(G)
  /\ IsPairs(G.ep[IndicesName])
  /\ Len(G.ep[IndicesName]) = n_edges(G)
  /\ \A i \in 1..n_edges(G) : G.ep[IndicesName][i][1] <= G.ep[IndicesName][i][2]
  /\ G.ep[IndicesName] = compute_ranges(RangeLengths(G.ep[IndicesName]))

\* the geometry attribute name of H holds, for every edge of G, as many samples as
\* the edge's range is long, each the edge's value of the property p
FilledFromProperty(H, G, p, name) ==
  /\ name \in DOMAIN H.gp
  /\ H.ep[IndicesName] = G.ep[IndicesName]
  /\ Len(H.gp[name]) = SumSeq(RangeLengths(G.ep[IndicesName]))
  /\ \A i \in 1..n_edges(G) :
       Slice(H.gp[name], G.ep[IndicesName][i][1], G.ep[IndicesName][i][2])
         = [k \in 1..RangeLength(G.ep[IndicesName][i]) |-> <<G.ep[p][i]>>]

\* the geometry attribute a call of edge_geometry_from_edge_property writes
WrittenGeometryName(call) ==
  edge_geometry_property_name(IF call.arg = None THEN call.name ELSE call.arg[1])

\* C27: for a graph whose edge geometry ranges are the canonical packing,
\* edge_geometry_from_edge_property(p) stores a geometry attribute whose total
\* length is the sum of the per-edge geometry lengths and whose slice for each edge
\* is constant and equal to the edge's value of p
GeometryFromProperty ==
  [][(/\ last'.op = "edge_geometry_from_edge_property"
      /\ CanonicalPacking(g)
      /\ last'.name \in DOMAIN g.ep)
       => (/\ err' = "none"
           /\ FilledFromProperty(g', g, last'.name, WrittenGeometryName(last')))]_vars

\* the same for a graph whose edges all have one sample
GeometryFromPropertyOfUnitEdges ==
  [][(/\ last'.op = "edge_geometry_from_edge_property"
      /\ CanonicalPacking(g)
      /\ \A i \in 1..n_edges(g) : RangeLength(g.ep[IndicesName][i]) = 1
      /\ last'.name \in DOMAIN g.ep)
       => (/\ err' = "none"
           /\ FilledFromProperty(g', g, last'.name, WrittenGeometryName(last')))]_vars

==============================================================================
